---- MODULE Spec2Model ----
(***************************************************************************)
(* The server of the AI photo editor: three relational tables (images,     *)
(* ai_operations, projects) and the eleven RPC procedures of appRouter     *)
(* that read and write them.  A handler that awaits more than one database *)
(* statement is one action per statement, so that other requests and a     *)
(* deletion of an image can run between its statements.                    *)
(***************************************************************************)
EXTENDS Integers, Sequences, FiniteSets, TLC

(***************************************************************************)
(* Bounds of the model.                                                    *)
(***************************************************************************)
MaxImages == 2      \* values the images id sequence may hand out
MaxOps == 2         \* values the ai_operations id sequence may hand out
MaxProjects == 2    \* values the projects id sequence may hand out
MaxClock == 1       \* readings of the clock after the first
MaxFiles == 2       \* calls of handleFile
NumCallers == 1     \* requests that may be in flight at once

Callers == 1..NumCallers

\* A further client, whose requests run concurrently with those of Callers
\* in the specification of listing.
Writer == 0

Sessions == Callers \cup {Writer}

(***************************************************************************)
(* Values.  A nullable column or field holds NULL or <<v>>; an optional    *)
(* input field that is omitted (undefined) is absent from the record.      *)
(***************************************************************************)
NULL == <<>>

Has(input, f) == f \in DOMAIN input

\* JavaScript `x || null` on an optional, nullable string field: undefined,
\* null and the empty string are all falsy.
OrNull(input, f) ==
    IF Has(input, f) /\ input[f] # NULL /\ input[f] # <<"">> THEN input[f] ELSE NULL

\* JavaScript `x || false` on an optional boolean field.
OrFalse(input, f) == IF Has(input, f) THEN input[f] ELSE FALSE

\* A number with one decimal, held in tenths, printed as JSON.stringify
\* prints it: 9 -> 0.9, 75 -> 7.5, 100 -> 10.
NumberToJSON(t) ==
    IF t % 10 = 0 THEN ToString(t \div 10)
    ELSE ToString(t \div 10) \o "." \o ToString(t % 10)

RECURSIVE MembersToJSON(_)
MembersToJSON(bag) ==
    IF bag = <<>> THEN ""
    ELSE "\"" \o Head(bag)[1] \o "\":" \o NumberToJSON(Head(bag)[2])
         \o (IF Tail(bag) = <<>> THEN "" ELSE ",")
         \o MembersToJSON(Tail(bag))

\* JSON.stringify of a parameter bag, a sequence of <<key, tenths>> in the
\* order of the object's keys.
JSONStringify(bag) == "{" \o MembersToJSON(bag) \o "}"

\* JSON.parse of the text of a parameter bag, read character by character:
\* the members between the braces, each a quoted key, a colon and a number
\* of at most one decimal, which is held in tenths.
CharAt(text, i) == SubSeq(text, i, i)

RECURSIVE IndexOf(_, _, _)
IndexOf(text, ch, i) ==
    IF i > Len(text) THEN 0
    ELSE IF CharAt(text, i) = ch THEN i
    ELSE IndexOf(text, ch, i + 1)

Digits == <<"0", "1", "2", "3", "4", "5", "6", "7", "8", "9">>

IsDigit(ch) == \E d \in DOMAIN Digits : Digits[d] = ch

DigitValue(ch) == (CHOOSE d \in DOMAIN Digits : Digits[d] = ch) - 1

\* The digits from position i on: <<their value after acc, the position
\* after them>>.
RECURSIVE ParseDigits(_, _, _)
ParseDigits(text, i, acc) ==
    IF i <= Len(text) /\ IsDigit(CharAt(text, i))
    THEN ParseDigits(text, i + 1, acc * 10 + DigitValue(CharAt(text, i)))
    ELSE <<acc, i>>

ParseNumber(text, i) ==
    LET whole == ParseDigits(text, i, 0)
    IN IF whole[2] <= Len(text) /\ CharAt(text, whole[2]) = "."
       THEN <<whole[1] * 10 + DigitValue(CharAt(text, whole[2] + 1)), whole[2] + 2>>
       ELSE <<whole[1] * 10, whole[2]>>

\* The members from position i on, which is at the quote that opens a key
\* or at the closing brace.
RECURSIVE ParseMembers(_, _)
ParseMembers(text, i) ==
    IF CharAt(text, i) = "}" THEN <<>>
    ELSE LET close == IndexOf(text, "\"", i + 1)
             key == SubSeq(text, i + 1, close - 1)
             number == ParseNumber(text, close + 2)
             next == IF CharAt(text, number[2]) = "," THEN number[2] + 1 ELSE number[2]
         IN <<<<key, number[1]>>>> \o ParseMembers(text, next)

JSONParse(text) == ParseMembers(text, 2)

ParametersJsonEmptyObject(input) ==
    IF Has(input, "parameters") THEN <<JSONStringify(input.parameters)>> ELSE <<"{}">>

\* `input.parameters ? JSON.stringify(input.parameters) : null`: an object
\* is truthy even when it is empty.
ParametersJson(input) ==
    IF Has(input, "parameters") THEN <<JSONStringify(input.parameters)>> ELSE NULL

\* `x ? parseFloat(x.toString()) : null` on the processing_time column
\* (tenths of a second): null and 0 are falsy.
CoerceTruthy(pt) == IF pt = NULL \/ pt = <<0>> THEN NULL ELSE pt

ImageNotFoundBug(id) == "Image not found"

\* `Image with id ${id} not found`
ImageNotFound(id) == "Image with id " \o ToString(id) \o " not found"

\* The error PostgreSQL raises when an inserted row references no image.
ForeignKeyViolation(table) ==
    "insert or update on table \"" \o table \o "\" violates foreign key constraint"

Ok(v) == [status |-> "ok", value |-> v]
Err(m) == [status |-> "error", message |-> m]

(***************************************************************************)
(* Inputs of the requests.                                                 *)
(***************************************************************************)
UploadInputs ==
    { [filename |-> "a.jpg", original_filename |-> "orig-a.jpg",
       file_path |-> "/uploads/a.jpg", file_size |-> 1024,
       mime_type |-> "image/jpeg", width |-> 800, height |-> 600],
      [filename |-> "b.png", original_filename |-> "orig-b.png",
       file_path |-> "/uploads/b.png", file_size |-> 2048,
       mime_type |-> "image/png", width |-> 1920, height |-> 1080] }

\* An identifier that matches no row, as in the tests.
NoSuchId == 999999

\* Identifiers a read may name: every one its sequence can hand out, and
\* zero, a negative and NoSuchId, which match no row.
ImageIds == (-1..MaxImages) \cup {NoSuchId}
OperationIds == (-1..MaxOps) \cup {NoSuchId}
ProjectIds == (-1..MaxProjects) \cup {NoSuchId}

\* Images a creation request may reference.
ReferencedIds == (1..MaxImages) \cup {NoSuchId}

MaskData == "[{\"x\":10,\"y\":10}]"
Prompt == "watercolor"

\* { inpaint_strength: 0.9, guidance_scale: 10.0 }
RemovalParameters == <<<<"inpaint_strength", 9>>, <<"guidance_scale", 100>>>>

ObjectRemovalInputs ==
    {[image_id |-> i, mask_data |-> MaskData] : i \in ReferencedIds}
    \cup {[image_id |-> i, mask_data |-> MaskData, parameters |-> RemovalParameters] :
             i \in ReferencedIds}

\* { style_strength: 0.7, guidance_scale: 7.5, num_inference_steps: 50 }
StyleParameters ==
    <<<<"style_strength", 7>>, <<"guidance_scale", 75>>, <<"num_inference_steps", 500>>>>

StyleTransferInputs ==
    {[image_id |-> i, prompt |-> Prompt] : i \in ReferencedIds}
    \cup {[image_id |-> i, prompt |-> Prompt, parameters |-> StyleParameters] :
             i \in ReferencedIds}

ImageModificationInputs ==
    {[image_id |-> i, prompt |-> Prompt] : i \in ReferencedIds}
    \cup {[image_id |-> i, prompt |-> Prompt, mask_data |-> m] :
             i \in ReferencedIds, m \in {<<"">>, <<MaskData>>}}

CreateProjectInputs ==
    {[name |-> "Test Project", original_image_id |-> i] : i \in ReferencedIds}
    \cup {[name |-> "Test Project", description |-> <<"A project">>,
           original_image_id |-> i, is_public |-> TRUE] : i \in ReferencedIds}

\* An input object none of whose optional fields is supplied.
Omitted == [f \in {} |-> NULL]

ListOperationsInputs == {Omitted} \cup {[image_id |-> i] : i \in ReferencedIds}

\* The mutable fields of a project, each supplied or omitted.
UpdateFields ==
    { Omitted,
      [name |-> "Renamed"],
      [description |-> NULL],
      [description |-> <<"Updated">>, is_public |-> TRUE],
      [current_image_path |-> "/results/step.jpg",
       operations_history |-> "[{\"operation\":\"object_removal\"}]"],
      [name |-> "Renamed", description |-> <<"Updated">>,
       current_image_path |-> "/results/step.jpg",
       operations_history |-> "[{\"operation\":\"object_removal\"}]",
       is_public |-> FALSE] }

UpdateProjectInputs ==
    {[id |-> i] @@ f : i \in (1..MaxProjects) \cup {NoSuchId}, f \in UpdateFields}

ListProjectsInputs ==
    {[limit |-> l, offset |-> o, public_only |-> b] :
        l \in {1, 20}, o \in {0, 1}, b \in BOOLEAN}

VARIABLES
    images,                 \* rows of the images table
    ai_operations,          \* rows of the ai_operations table
    projects,               \* rows of the projects table
    images_id_seq,          \* last value of the serial of images.id
    ai_operations_id_seq,   \* last value of the serial of ai_operations.id
    projects_id_seq,        \* last value of the serial of projects.id
    now,                    \* the clock
    calls,                  \* per caller, the request in flight
    reply,                  \* what the last step answered, and to which request
    currentImage,           \* App: the image being edited, or null
    currentImageSrc,        \* App: the source of the displayed image
    operations,             \* App: the operations shown for the image
    isLoading,              \* App: handed to the tools as isProcessing
    error,                  \* App: the error shown
    polls,                  \* App: per started operation, its poll loop
    isUploading,            \* ImageUploader: an upload is under way
    uploaderError,          \* ImageUploader: the error shown
    uploads,                \* ImageUploader: the calls of handleFile
    managerProjects,        \* ProjectManager: the projects shown
    activeProject,          \* App: the project being edited, or null
    managerIsLoading,       \* ProjectManager: a request is under way
    managerError,           \* ProjectManager: the error shown
    managerCall,            \* ProjectManager: the handler that awaits an answer
    pager                   \* a client that pages through listProjects

db == <<images, ai_operations, projects>>
seqs == <<images_id_seq, ai_operations_id_seq, projects_id_seq>>
server == <<db, seqs, now, calls>>
app == <<currentImage, currentImageSrc, operations, isLoading, error, polls>>
uploader == <<isUploading, uploaderError, uploads>>
manager == <<managerProjects, activeProject, managerIsLoading, managerError, managerCall>>
client == <<app, uploader, manager, pager>>
vars == <<images, ai_operations, projects, images_id_seq, ai_operations_id_seq,
          projects_id_seq, now, calls, reply, client>>

Idle == [pc |-> "idle"]
NoReply == [op |-> "none"]

\* No poll loop was started for an operation; no call of handleFile was made.
\* A poll loop that has stopped leaves nothing behind but that it ran.
NoPoll == [pc |-> "none", attempts |-> 0, queries |-> 0]
Stopped == [pc |-> "stopped", attempts |-> 0, queries |-> 0]
NoUpload == [pc |-> "none"]

Init ==
    /\ images = {}
    /\ ai_operations = {}
    /\ projects = {}
    /\ images_id_seq = 0
    /\ ai_operations_id_seq = 0
    /\ projects_id_seq = 0
    /\ now = 0
    /\ calls = [c \in Sessions |-> Idle]
    /\ reply = NoReply
    /\ currentImage = NULL
    /\ currentImageSrc = ""
    /\ operations = <<>>
    /\ isLoading = FALSE
    /\ error = ""
    /\ polls = [id \in 1..MaxOps |-> NoPoll]
    /\ isUploading = FALSE
    /\ uploaderError = ""
    /\ uploads = [k \in 1..MaxFiles |-> NoUpload]
    /\ managerProjects = <<>>
    /\ activeProject = NULL
    /\ managerIsLoading = FALSE
    /\ managerError = ""
    /\ managerCall = Idle
    /\ pager = [pc |-> "none"]

(***************************************************************************)
(* The database.                                                           *)
(***************************************************************************)
\* db.select().from(table).where(eq(table.id, id))
SelectById(table, id) == {r \in table : r.id = id}

\* The foreign key of ai_operations.image_id and projects.original_image_id:
\* the referenced row of images exists.
References(id) == SelectById(images, id) # {}

NoCascade(table, column, id) == table

\* ON DELETE CASCADE: the rows of a table that remain when image id goes.
Cascade(table, column, id) == {r \in table : r[column] # id}

\* A request finishes: the caller is idle again and the step answers it.
Finish(c, op, input, result) ==
    /\ calls' = [calls EXCEPT ![c] = Idle]
    /\ reply' = [op |-> op, input |-> input, result |-> result]

\* The clock advances.
Tick ==
    /\ now < MaxClock
    /\ now' = now + 1
    /\ reply' = NoReply
    /\ UNCHANGED <<db, seqs, calls, client>>

\* A row of images is deleted by SQL outside the handlers, which never
\* delete; the cascade deletes the rows that reference it.  The statement
\* answers with the number of rows of images it deleted.
DeleteImage(id) ==
    /\ SelectById(images, id) # {}
    /\ images' = images \ SelectById(images, id)
    /\ ai_operations' = Cascade(ai_operations, "image_id", id)
    /\ projects' = Cascade(projects, "original_image_id", id)
    /\ reply' = [op |-> "DELETE", input |-> [id |-> id], result |-> Ok(1)]
    /\ UNCHANGED <<seqs, now, calls, client>>

(***************************************************************************)
(* uploadImage and getImage.                                               *)
(***************************************************************************)
UploadImageReplacesSameName(c, input) ==
    /\ calls[c] = Idle
    /\ images_id_seq < MaxImages
    /\ LET image == [id |-> images_id_seq + 1,
                     filename |-> input.filename,
                     original_filename |-> input.original_filename,
                     file_path |-> input.file_path,
                     file_size |-> input.file_size,
                     mime_type |-> input.mime_type,
                     width |-> input.width,
                     height |-> input.height,
                     created_at |-> now,
                     updated_at |-> now]
       IN /\ images' = {r \in images : r.filename # input.filename} \cup {image}
          /\ images_id_seq' = images_id_seq + 1
          /\ Finish(c, "uploadImage", input, Ok(image))
    /\ UNCHANGED <<ai_operations, projects, ai_operations_id_seq, projects_id_seq, now, client>>

UploadImageSwapsNames(c, input) ==
    /\ calls[c] = Idle
    /\ images_id_seq < MaxImages
    /\ LET image == [id |-> images_id_seq + 1,
                     filename |-> input.original_filename,
                     original_filename |-> input.filename,
                     file_path |-> input.file_path,
                     file_size |-> input.file_size,
                     mime_type |-> input.mime_type,
                     width |-> input.width,
                     height |-> input.height,
                     created_at |-> now,
                     updated_at |-> now]
       IN /\ images' = images \cup {image}
          /\ images_id_seq' = images_id_seq + 1
          /\ Finish(c, "uploadImage", input, Ok(image))
    /\ UNCHANGED <<ai_operations, projects, ai_operations_id_seq, projects_id_seq, now, client>>

UploadImage(c, input) ==
    /\ calls[c] = Idle
    /\ images_id_seq < MaxImages
    /\ LET image == [id |-> images_id_seq + 1,
                     filename |-> input.filename,
                     original_filename |-> input.original_filename,
                     file_path |-> input.file_path,
                     file_size |-> input.file_size,
                     mime_type |-> input.mime_type,
                     width |-> input.width,
                     height |-> input.height,
                     created_at |-> now,
                     updated_at |-> now]
       IN /\ images' = images \cup {image}
          /\ images_id_seq' = images_id_seq + 1
          /\ Finish(c, "uploadImage", input, Ok(image))
    /\ UNCHANGED <<ai_operations, projects, ai_operations_id_seq, projects_id_seq, now, client>>

\* `results.length === 0 ? null : results[0]`
FirstOrNullRaises(results) ==
    IF results = {} THEN Err("not found") ELSE Ok(CHOOSE r \in results : TRUE)

FirstOrNull(results) ==
    IF results = {} THEN Ok(NULL) ELSE Ok(CHOOSE r \in results : TRUE)

GetImage(c, input) ==
    /\ calls[c] = Idle
    /\ Finish(c, "getImage", input, FirstOrNull(SelectById(images, input.id)))
    /\ UNCHANGED <<db, seqs, now, client>>

(***************************************************************************)
(* removeObject, applyStyleTransfer, modifyImage and createProject start   *)
(* with a select of the referenced image; the insert is a second           *)
(* statement, outside any transaction.                                     *)
(***************************************************************************)
VerifyImageNoThrow(c, op, input, imageId) ==
    /\ calls[c] = Idle
    /\ calls' = [calls EXCEPT ![c] =
                   [pc |-> "insert", op |-> op, input |-> input,
                    imageRecord |-> [file_path |-> "/placeholder/path"]]]
    /\ reply' = NoReply
    /\ UNCHANGED <<db, seqs, now, client>>

\* The first statement of a creation handler: the select of the referenced
\* image, and the throw when it returns no row.  The error is caught, logged
\* and thrown again, so it is the outcome of the request.
VerifyImage(c, op, input, imageId) ==
    /\ calls[c] = Idle
    /\ LET existingImages == SelectById(images, imageId)
       IN IF existingImages = {}
          THEN Finish(c, op, input, Err(ImageNotFound(imageId)))
          ELSE /\ calls' = [calls EXCEPT ![c] =
                              [pc |-> "insert", op |-> op, input |-> input,
                               imageRecord |-> CHOOSE r \in existingImages : TRUE]]
               /\ reply' = NoReply
    /\ UNCHANGED <<db, seqs, now, client>>

RemoveObjectValuesNotPending(input) ==
    [image_id |-> input.image_id,
     operation_type |-> "object_removal",
     status |-> "processing",
     prompt |-> NULL,
     mask_data |-> <<input.mask_data>>,
     parameters |-> ParametersJson(input),
     result_image_path |-> NULL,
     error_message |-> NULL,
     processing_time |-> <<0>>]

RemoveObjectValues(input) ==
    [image_id |-> input.image_id,
     operation_type |-> "object_removal",
     status |-> "pending",
     prompt |-> NULL,
     mask_data |-> <<input.mask_data>>,
     parameters |-> ParametersJson(input),
     result_image_path |-> NULL,
     error_message |-> NULL,
     processing_time |-> NULL]

StyleTransferValuesWrongType(input) ==
    [image_id |-> input.image_id,
     operation_type |-> "image_modification",
     status |-> "pending",
     prompt |-> <<input.prompt>>,
     mask_data |-> NULL,
     parameters |-> ParametersJson(input),
     result_image_path |-> NULL,
     error_message |-> NULL,
     processing_time |-> NULL]

StyleTransferValues(input) ==
    [image_id |-> input.image_id,
     operation_type |-> "style_transfer",
     status |-> "pending",
     prompt |-> <<input.prompt>>,
     mask_data |-> NULL,
     parameters |-> ParametersJson(input),
     result_image_path |-> NULL,
     error_message |-> NULL,
     processing_time |-> NULL]

ModifyImageValues(input) ==
    [image_id |-> input.image_id,
     operation_type |-> "image_modification",
     status |-> "pending",
     prompt |-> <<input.prompt>>,
     mask_data |-> OrNull(input, "mask_data"),
     parameters |-> ParametersJson(input),
     result_image_path |-> NULL,
     error_message |-> NULL,
     processing_time |-> NULL]

\* The row db.insert(aiOperationsTable).values(v).returning() stores: the
\* serial id and the defaultNow() timestamps are filled in by the database.
OperationRow(v) ==
    [id |-> ai_operations_id_seq + 1,
     image_id |-> v.image_id,
     operation_type |-> v.operation_type,
     status |-> v.status,
     prompt |-> v.prompt,
     mask_data |-> v.mask_data,
     parameters |-> v.parameters,
     result_image_path |-> v.result_image_path,
     error_message |-> v.error_message,
     processing_time |-> v.processing_time,
     created_at |-> now,
     updated_at |-> now]

\* What a handler returns for a row of ai_operations.
Returned(operation) == [operation EXCEPT !.processing_time = CoerceTruthy(@)]

\* The foreign key as the insert checks it.
InsertAllowedUnchecked(imageId) == TRUE

InsertAllowed(imageId) == References(imageId)

\* The insert of a creation handler.  The foreign key is checked by the
\* database; a violation is an error of the statement, which the handler
\* logs and throws again.  A failed insert advances the serial too.
InsertOperation(c, op, values) ==
    /\ calls[c].pc = "insert"
    /\ calls[c].op = op
    /\ ai_operations_id_seq < MaxOps
    /\ ai_operations_id_seq' = ai_operations_id_seq + 1
    /\ IF InsertAllowed(values.image_id)
       THEN /\ ai_operations' = ai_operations \cup {OperationRow(values)}
            /\ Finish(c, op, calls[c].input, Ok(Returned(OperationRow(values))))
       ELSE /\ UNCHANGED ai_operations
            /\ Finish(c, op, calls[c].input, Err(ForeignKeyViolation("ai_operations")))
    /\ UNCHANGED <<images, projects, images_id_seq, projects_id_seq, now, client>>

RemoveObject(c, input) == VerifyImage(c, "removeObject", input, input.image_id)

RemoveObjectInsert(c) ==
    InsertOperation(c, "removeObject", RemoveObjectValues(calls[c].input))

ApplyStyleTransfer(c, input) ==
    VerifyImage(c, "applyStyleTransfer", input, input.image_id)

ApplyStyleTransferInsert(c) ==
    InsertOperation(c, "applyStyleTransfer", StyleTransferValues(calls[c].input))

ModifyImage(c, input) == VerifyImage(c, "modifyImage", input, input.image_id)

ModifyImageInsert(c) ==
    InsertOperation(c, "modifyImage", ModifyImageValues(calls[c].input))

(***************************************************************************)
(* getOperationResult and listOperations.                                  *)
(***************************************************************************)
GetOperationResult(c, input) ==
    /\ calls[c] = Idle
    /\ LET results == SelectById(ai_operations, input.operation_id)
       IN Finish(c, "getOperationResult", input,
                 IF results = {} THEN Ok(NULL)
                 ELSE Ok(Returned(CHOOSE r \in results : TRUE)))
    /\ UNCHANGED <<db, seqs, now, client>>

OrderedByCreatedAtAsc(rows) ==
    {s \in [1..Cardinality(rows) -> rows] :
        /\ \A i, j \in DOMAIN s : i < j => s[i] # s[j]
        /\ \A i, j \in DOMAIN s : i < j => s[i].created_at <= s[j].created_at}

\* The rows of a set as the sequences that list each once with created_at
\* descending: ORDER BY created_at DESC leaves the order of ties open.
OrderedByCreatedAtDesc(rows) ==
    {s \in [1..Cardinality(rows) -> rows] :
        /\ \A i, j \in DOMAIN s : i < j => s[i] # s[j]
        /\ \A i, j \in DOMAIN s : i < j => s[i].created_at >= s[j].created_at}

\* `x !== null ? parseFloat(String(x)) : null` on processing_time: only
\* null is turned into null, and a number is read back from its own print.
CoerceNotNull(pt) == IF pt # NULL THEN <<pt[1]>> ELSE NULL

ListOperationsIgnoresFilter(c, input) ==
    /\ calls[c] = Idle
    /\ \E results \in OrderedByCreatedAtDesc(ai_operations) :
          Finish(c, "listOperations", input,
                 Ok([i \in DOMAIN results |->
                       [results[i] EXCEPT !.processing_time = CoerceNotNull(@)]]))
    /\ UNCHANGED <<db, seqs, now, client>>

\* listOperations(input.image_id), where image_id may be omitted.
ListOperations(c, input) ==
    /\ calls[c] = Idle
    /\ LET rows == IF Has(input, "image_id")
                   THEN {o \in ai_operations : o.image_id = input.image_id}
                   ELSE ai_operations
       IN \E results \in OrderedByCreatedAtDesc(rows) :
             Finish(c, "listOperations", input,
                    Ok([i \in DOMAIN results |->
                          [results[i] EXCEPT !.processing_time = CoerceNotNull(@)]]))
    /\ UNCHANGED <<db, seqs, now, client>>

(***************************************************************************)
(* createProject, getProject, listProjects and updateProject.              *)
(***************************************************************************)
CreateProjectValuesPlaceholderPath(input, imageRecord) ==
    [name |-> input.name,
     description |-> OrNull(input, "description"),
     original_image_id |-> input.original_image_id,
     current_image_path |-> "/placeholder/path",
     operations_history |-> "[]",
     is_public |-> OrFalse(input, "is_public")]

\* The values createProject inserts; JSON.stringify([]) is "[]".
CreateProjectValues(input, imageRecord) ==
    [name |-> input.name,
     description |-> OrNull(input, "description"),
     original_image_id |-> input.original_image_id,
     current_image_path |-> imageRecord.file_path,
     operations_history |-> "[]",
     is_public |-> OrFalse(input, "is_public")]

\* The row db.insert(projectsTable).values(v).returning() stores.
ProjectRow(v) ==
    [id |-> projects_id_seq + 1,
     name |-> v.name,
     description |-> v.description,
     original_image_id |-> v.original_image_id,
     current_image_path |-> v.current_image_path,
     operations_history |-> v.operations_history,
     is_public |-> v.is_public,
     created_at |-> now,
     updated_at |-> now]

CreateProject(c, input) ==
    VerifyImage(c, "createProject", input, input.original_image_id)

CreateProjectInsert(c) ==
    /\ calls[c].pc = "insert"
    /\ calls[c].op = "createProject"
    /\ projects_id_seq < MaxProjects
    /\ projects_id_seq' = projects_id_seq + 1
    /\ LET project == ProjectRow(CreateProjectValues(calls[c].input, calls[c].imageRecord))
       IN IF InsertAllowed(project.original_image_id)
          THEN /\ projects' = projects \cup {project}
               /\ Finish(c, "createProject", calls[c].input, Ok(project))
          ELSE /\ UNCHANGED projects
               /\ Finish(c, "createProject", calls[c].input,
                         Err(ForeignKeyViolation("projects")))
    /\ UNCHANGED <<images, ai_operations, images_id_seq, ai_operations_id_seq, now, client>>

GetProject(c, input) ==
    /\ calls[c] = Idle
    /\ Finish(c, "getProject", input, FirstOrNull(SelectById(projects, input.id)))
    /\ UNCHANGED <<db, seqs, now, client>>

\* The orders in which a select without ORDER BY may return the rows of a
\* table: the database promises none, so every order of the rows.
Scan(rows) ==
    {s \in [1..Cardinality(rows) -> rows] : \A i, j \in DOMAIN s : i < j => s[i] # s[j]}

PageIgnoresOffset(s, limit, offset) ==
    [i \in 1..(IF Len(s) < limit THEN Len(s) ELSE limit) |-> s[i]]

\* .limit(limit).offset(offset)
Page(s, limit, offset) ==
    [i \in 1..(IF Len(s) - offset < 0 THEN 0
               ELSE IF Len(s) - offset < limit THEN Len(s) - offset
               ELSE limit) |-> s[offset + i]]

MatchingIgnoresFilter(input) == projects

\* The rows the two queries of listProjects range over.
Matching(input) == IF input.public_only THEN {p \in projects : p.is_public} ELSE projects

\* The pages the page query may return.
SelectPage(input) ==
    {Page(s, input.limit, input.offset) : s \in Scan(Matching(input))}

\* select count(*): `totalResult[0]?.count ?? 0`
SelectCount(input) == Cardinality(Matching(input))

\* Promise.all starts the page query and the count query together; this is
\* the one the database runs first.
ListProjects(c, input) ==
    /\ calls[c] = Idle
    /\ \/ \E page \in SelectPage(input) :
             calls' = [calls EXCEPT ![c] =
                         [pc |-> "count", op |-> "listProjects", input |-> input,
                          projects |-> page]]
       \/ calls' = [calls EXCEPT ![c] =
                      [pc |-> "page", op |-> "listProjects", input |-> input,
                       total |-> SelectCount(input)]]
    /\ reply' = NoReply
    /\ UNCHANGED <<db, seqs, now, client>>

\* The other query, after which the handler returns { projects, total }.
ListProjectsReturnOfOneSnapshot(c) ==
    /\ calls[c].pc \in {"count", "page"}
    /\ \E page \in SelectPage(calls[c].input) :
          Finish(c, "listProjects", calls[c].input,
                 Ok([projects |-> page, total |-> SelectCount(calls[c].input)]))
    /\ UNCHANGED <<db, seqs, now, client>>

ListProjectsReturn(c) ==
    /\ calls[c].pc \in {"count", "page"}
    /\ IF calls[c].pc = "count"
       THEN Finish(c, "listProjects", calls[c].input,
                   Ok([projects |-> calls[c].projects,
                       total |-> SelectCount(calls[c].input)]))
       ELSE \E page \in SelectPage(calls[c].input) :
               Finish(c, "listProjects", calls[c].input,
                      Ok([projects |-> page, total |-> calls[c].total]))
    /\ UNCHANGED <<db, seqs, now, client>>

\* A mutable field after an update: the supplied value, or the stored one.
SetFieldIfTruthy(input, f, stored) ==
    IF /\ Has(input, f)
       /\ ~(f = "description" /\ input[f] \in {NULL, <<"">>})
       /\ ~(f = "is_public" /\ input[f] = FALSE)
    THEN input[f] ELSE stored

SetField(input, f, stored) == IF Has(input, f) THEN input[f] ELSE stored

UpdatedAtNotRefreshed(project) == project.updated_at

\* The update timestamp is always refreshed.
UpdatedAt(project) == now

\* The row an update of `project` with `input` stores.
UpdatedProject(project, input) ==
    [project EXCEPT
        !.name = SetField(input, "name", @),
        !.description = SetField(input, "description", @),
        !.current_image_path = SetField(input, "current_image_path", @),
        !.operations_history = SetField(input, "operations_history", @),
        !.is_public = SetField(input, "is_public", @),
        !.updated_at = UpdatedAt(project)]

UpdateProjectRaisesOnMissing(c, input) ==
    /\ calls[c] = Idle
    /\ LET results == SelectById(projects, input.id)
       IN IF results = {}
          THEN /\ UNCHANGED projects
               /\ Finish(c, "updateProject", input, Err("Project not found"))
          ELSE LET project == CHOOSE r \in results : TRUE
               IN /\ now > project.updated_at
                  /\ projects' = (projects \ {project})
                                    \cup {UpdatedProject(project, input)}
                  /\ Finish(c, "updateProject", input,
                            Ok(UpdatedProject(project, input)))
    /\ UNCHANGED <<images, ai_operations, seqs, now, client>>

\* updateProject: one UPDATE ... RETURNING; null when no row has the id.
\* An existing row is updated at a reading of the clock later than the one
\* of its last write.
UpdateProject(c, input) ==
    /\ calls[c] = Idle
    /\ LET results == SelectById(projects, input.id)
       IN IF results = {}
          THEN /\ UNCHANGED projects
               /\ Finish(c, "updateProject", input, Ok(NULL))
          ELSE LET project == CHOOSE r \in results : TRUE
               IN /\ now > project.updated_at
                  /\ projects' = (projects \ {project})
                                    \cup {UpdatedProject(project, input)}
                  /\ Finish(c, "updateProject", input,
                            Ok(UpdatedProject(project, input)))
    /\ UNCHANGED <<images, ai_operations, seqs, now, client>>

(***************************************************************************)
(* The router: the eleven procedures, the clock and the deletion of an     *)
(* image.                                                                  *)
(***************************************************************************)
Environment ==
    \/ Tick
    \/ \E id \in 1..MaxImages : DeleteImage(id)

ImageProcedures ==
    \/ \E c \in Callers, input \in UploadInputs : UploadImage(c, input)
    \/ \E c \in Callers, id \in ImageIds : GetImage(c, [id |-> id])

OperationProcedures ==
    \/ \E c \in Callers, input \in ObjectRemovalInputs : RemoveObject(c, input)
    \/ \E c \in Callers : RemoveObjectInsert(c)
    \/ \E c \in Callers, input \in StyleTransferInputs : ApplyStyleTransfer(c, input)
    \/ \E c \in Callers : ApplyStyleTransferInsert(c)
    \/ \E c \in Callers, input \in ImageModificationInputs : ModifyImage(c, input)
    \/ \E c \in Callers : ModifyImageInsert(c)
    \/ \E c \in Callers, id \in OperationIds :
          GetOperationResult(c, [operation_id |-> id])
    \/ \E c \in Callers, input \in ListOperationsInputs : ListOperations(c, input)

ProjectProcedures ==
    \/ \E c \in Callers, input \in CreateProjectInputs : CreateProject(c, input)
    \/ \E c \in Callers : CreateProjectInsert(c)
    \/ \E c \in Callers, id \in ProjectIds : GetProject(c, [id |-> id])
    \/ \E c \in Callers, input \in ListProjectsInputs : ListProjects(c, input)
    \/ \E c \in Callers : ListProjectsReturn(c)
    \/ \E c \in Callers, input \in UpdateProjectInputs : UpdateProject(c, input)

\* The requests of the specification that runs every procedure together:
\* one of each shape, so that the three tables fit in one state space.
EveryProcedure ==
    \/ \E c \in Callers : UploadImage(c, CHOOSE input \in UploadInputs : TRUE)
    \/ \E c \in Callers, id \in ImageIds : GetImage(c, [id |-> id])
    \/ \E c \in Callers, id \in ReferencedIds :
          RemoveObject(c, [image_id |-> id, mask_data |-> MaskData])
    \/ \E c \in Callers : RemoveObjectInsert(c)
    \/ \E c \in Callers, id \in ReferencedIds :
          ApplyStyleTransfer(c, [image_id |-> id, prompt |-> Prompt])
    \/ \E c \in Callers : ApplyStyleTransferInsert(c)
    \/ \E c \in Callers, id \in ReferencedIds :
          ModifyImage(c, [image_id |-> id, prompt |-> Prompt])
    \/ \E c \in Callers : ModifyImageInsert(c)
    \/ \E c \in Callers, id \in OperationIds :
          GetOperationResult(c, [operation_id |-> id])
    \/ \E c \in Callers : ListOperations(c, Omitted)
    \/ \E c \in Callers, id \in ReferencedIds :
          CreateProject(c, [name |-> "Test Project", original_image_id |-> id])
    \/ \E c \in Callers : CreateProjectInsert(c)
    \/ \E c \in Callers, id \in ProjectIds : GetProject(c, [id |-> id])
    \/ \E c \in Callers :
          ListProjects(c, [limit |-> 20, offset |-> 0, public_only |-> FALSE])
    \/ \E c \in Callers : ListProjectsReturn(c)
    \/ \E c \in Callers, id \in (1..MaxProjects) \cup {NoSuchId} :
          UpdateProject(c, [id |-> id, is_public |-> TRUE])

Next == Environment \/ EveryProcedure

Spec == Init /\ [][Next]_vars

NextOperations == Environment \/ ImageProcedures \/ OperationProcedures

SpecOperations == Init /\ [][NextOperations]_vars

NextProjects == Environment \/ ImageProcedures \/ ProjectProcedures

SpecProjects == Init /\ [][NextProjects]_vars

(***************************************************************************)
(* The input schemas of uploadImage and listProjects.  A number of a        *)
(* request is held in tenths as it arrives, so that a request can carry a   *)
(* number that is not an integer; file sizes are whole numbers of bytes.    *)
(***************************************************************************)
\* z.number().int()
IsInteger(t) == t % 10 = 0

UploadImageInputSchemaAllowsZero(raw) ==
    /\ raw.file_size >= 0
    /\ IsInteger(raw.width) /\ raw.width >= 0
    /\ IsInteger(raw.height) /\ raw.height >= 0

\* uploadImageInputSchema: file_size positive, width and height positive
\* integers.
UploadImageInputSchema(raw) ==
    /\ raw.file_size > 0
    /\ IsInteger(raw.width) /\ raw.width > 0
    /\ IsInteger(raw.height) /\ raw.height > 0

\* What the schema hands to the handler.
UploadImageInput(raw) ==
    [raw EXCEPT !.file_size = @ \div 10, !.width = @ \div 10, !.height = @ \div 10]

\* listProjectsInputSchema: limit an integer of 1..100, offset an integer
\* not below 0, each optional.
ListProjectsInputSchema(raw) ==
    /\ Has(raw, "limit")
       => IsInteger(raw.limit) /\ raw.limit >= 1 * 10 /\ raw.limit <= 100 * 10
    /\ Has(raw, "offset") => IsInteger(raw.offset) /\ raw.offset >= 0

\* What the schema hands to the handler: .default(20), .default(0) and
\* .default(false) fill in what the request omits.
ListProjectsInput(raw) ==
    [limit |-> IF Has(raw, "limit") THEN raw.limit \div 10 ELSE 20,
     offset |-> IF Has(raw, "offset") THEN raw.offset \div 10 ELSE 0,
     public_only |-> IF Has(raw, "public_only") THEN raw.public_only ELSE FALSE]

\* A request the schema of its procedure refuses: the router answers with
\* an error and calls no handler.
BadRequest(c, op, raw) ==
    /\ calls[c] = Idle
    /\ Finish(c, op, raw, Err("BAD_REQUEST"))
    /\ UNCHANGED <<db, seqs, now, client>>

\* publicProcedure.input(uploadImageInputSchema).mutation(...)
RouteUploadImage(c, raw) ==
    IF UploadImageInputSchema(raw)
    THEN UploadImage(c, UploadImageInput(raw))
    ELSE BadRequest(c, "uploadImage", raw)

\* publicProcedure.input(listProjectsInputSchema).query(...)
RouteListProjects(c, raw) ==
    IF ListProjectsInputSchema(raw)
    THEN ListProjects(c, ListProjectsInput(raw))
    ELSE BadRequest(c, "listProjects", raw)

\* An upload request of 1024 bytes, 800 by 600.
RawUpload ==
    [filename |-> "a.jpg", original_filename |-> "orig-a.jpg",
     file_path |-> "/uploads/a.jpg", file_size |-> 10240,
     mime_type |-> "image/jpeg", width |-> 8000, height |-> 6000]

\* That request, and it with a size or a dimension that is zero, negative
\* or not an integer.
RawUploadInputs ==
    {RawUpload}
    \cup {[RawUpload EXCEPT !.file_size = t] : t \in {0, -10}}
    \cup {[RawUpload EXCEPT !.width = t] : t \in {0, -8000, 8005}}
    \cup {[RawUpload EXCEPT !.height = t] : t \in {0, -6000, 6005}}

\* Listing requests with limit and offset omitted, at the ends of their
\* ranges, outside them, and not an integer.
RawListProjectsInputs ==
    {Omitted}
    \cup {[limit |-> t] : t \in {0, 10, 15, 1000, 1010}}
    \cup {[offset |-> t] : t \in {-10, 5, 10}}
    \cup {[limit |-> 10, offset |-> 10, public_only |-> TRUE]}

\* Requests as they reach the router, the schema of the procedure first.
NextRouter ==
    \/ Tick
    \/ \E c \in Callers, raw \in RawUploadInputs : RouteUploadImage(c, raw)
    \/ \E c \in Callers, input \in CreateProjectInputs : CreateProject(c, input)
    \/ \E c \in Callers : CreateProjectInsert(c)
    \/ \E c \in Callers, raw \in RawListProjectsInputs : RouteListProjects(c, raw)
    \/ \E c \in Callers : ListProjectsReturn(c)

SpecRouter == Init /\ [][NextRouter]_vars

\* Listing by the callers while the further client uploads images and
\* creates projects, and images are deleted.
NextListing ==
    \/ \E id \in 1..MaxImages : DeleteImage(id)
    \/ UploadImage(Writer, CHOOSE input \in UploadInputs : TRUE)
    \/ \E input \in CreateProjectInputs : CreateProject(Writer, input)
    \/ CreateProjectInsert(Writer)
    \/ \E c \in Callers, input \in ListProjectsInputs : ListProjects(c, input)
    \/ \E c \in Callers : ListProjectsReturn(c)

SpecListing == Init /\ [][NextListing]_vars

\* No listProjects request is between its two queries.
NoListingInFlight == \A c \in Sessions : calls[c].pc \notin {"count", "page"}

\* The procedures on projects with no write to the projects table while a
\* listProjects request is in flight: the insert of createProject, the
\* update of updateProject and the deletion of an image run between
\* listings only.
NextUndisturbedListing ==
    \/ Tick
    \/ \E id \in 1..MaxImages : NoListingInFlight /\ DeleteImage(id)
    \/ \E c \in Callers, input \in UploadInputs : UploadImage(c, input)
    \/ \E c \in Callers, input \in CreateProjectInputs : CreateProject(c, input)
    \/ \E c \in Callers : NoListingInFlight /\ CreateProjectInsert(c)
    \/ \E c \in Callers, input \in UpdateProjectInputs :
          NoListingInFlight /\ UpdateProject(c, input)
    \/ \E c \in Callers, input \in ListProjectsInputs : ListProjects(c, input)
    \/ \E c \in Callers : ListProjectsReturn(c)

SpecUndisturbedListing == Init /\ [][NextUndisturbedListing]_vars

(***************************************************************************)
(* The worker.  The handlers store every operation as pending and leave    *)
(* its result_image_path, error_message and processing_time null, "set     *)
(* when processing completes": the completion is an UPDATE of the row by   *)
(* whatever processes the operation, as the tests write it.                *)
(***************************************************************************)
\* What a completion writes: a completed operation with its result and its
\* processing time (tenths of a second), or a failed one with its message.
WorkerOutcomes ==
    {[status |-> "completed", result_image_path |-> p, error_message |-> NULL,
      processing_time |-> t] :
        p \in {NULL, <<"">>, <<"/results/modified_image.jpg">>}, t \in {<<0>>, <<155>>}}
    \cup {[status |-> "failed", result_image_path |-> NULL, error_message |-> e,
           processing_time |-> NULL] :
             e \in {NULL, <<"">>, <<"Model inference failed">>}}

Worker(id, outcome) ==
    /\ \E o \in SelectById(ai_operations, id) :
          /\ o.status = "pending"
          /\ ai_operations' =
                (ai_operations \ {o})
                   \cup {[o EXCEPT !.status = outcome.status,
                                   !.result_image_path = outcome.result_image_path,
                                   !.error_message = outcome.error_message,
                                   !.processing_time = outcome.processing_time]}
    /\ reply' = [op |-> "UPDATE", input |-> [id |-> id], result |-> Ok(1)]
    /\ UNCHANGED <<images, projects, seqs, now, calls, client>>

\* The operations with the worker: images are uploaded, removeObject stores
\* operations, the worker completes them or fails them, and the two read
\* paths read them.
NextProcessing ==
    \/ \E c \in Callers : UploadImage(c, CHOOSE input \in UploadInputs : TRUE)
    \/ \E c \in Callers, id \in ReferencedIds :
          RemoveObject(c, [image_id |-> id, mask_data |-> MaskData])
    \/ \E c \in Callers : RemoveObjectInsert(c)
    \/ \E id \in 1..MaxOps, outcome \in WorkerOutcomes : Worker(id, outcome)
    \/ \E c \in Callers, id \in OperationIds :
          GetOperationResult(c, [operation_id |-> id])
    \/ \E c \in Callers, input \in ListOperationsInputs : ListOperations(c, input)

SpecProcessing == Init /\ [][NextProcessing]_vars

(***************************************************************************)
(* The client.  A handler that awaits a procedure runs on when the         *)
(* procedure has answered: the step after the answer is the rest of the    *)
(* handler, and while an answer is undelivered nothing else runs.          *)
(***************************************************************************)
Procedures ==
    {"uploadImage", "getImage", "removeObject", "applyStyleTransfer", "modifyImage",
     "getOperationResult", "listOperations", "createProject", "getProject",
     "listProjects", "updateProject"}

\* The last answer of a procedure has reached the handler that awaited it.
Delivered == reply.op \notin Procedures

\* JavaScript truthiness of a nullable string: null and '' are falsy.
Falsy(x) == x = NULL \/ x = <<"">>

OrElseOfNullOnly(x, d) == IF x = NULL THEN d ELSE x[1]

\* `x || d` on a nullable string.
OrElse(x, d) == IF Falsy(x) THEN d ELSE x[1]

\* `if (result)` on the answer of getOperationResult: a row, or null.
Found(result) == DOMAIN result # {}

(***************************************************************************)
(* ImageUploader.                                                          *)
(***************************************************************************)
\* 10 * 1024 * 1024
MaxFileSize == 10485760

\* The files handed to handleFile: a photo, a photo of exactly the largest
\* size, a file of an image type that does not decode, a text file and a
\* photo that is too large.
Photo ==
    [name |-> "photo.jpg", type |-> "image/jpeg", size |-> 1024,
     decodes |-> TRUE, width |-> 800, height |-> 600]

Files ==
    { Photo,
      [Photo EXCEPT !.name = "large.png", !.type = "image/png", !.size = MaxFileSize],
      [Photo EXCEPT !.name = "broken.jpg", !.decodes = FALSE],
      [Photo EXCEPT !.name = "notes.txt", !.type = "text/plain", !.decodes = FALSE],
      [Photo EXCEPT !.name = "huge.jpg", !.size = MaxFileSize + 1] }

\* file.type.startsWith('image/')
IsImageType(type) == Len(type) >= 6 /\ SubSeq(type, 1, 6) = "image/"

\* The call of handleFile a new file gets: the calls are numbered.
NextUpload == CHOOSE k \in 1..MaxFiles :
                 /\ uploads[k].pc = "none"
                 /\ \A j \in 1..(k - 1) : uploads[j].pc # "none"

\* The calls of handleFile that await getImageDimensions or uploadImage.
Uploading == {k \in 1..MaxFiles : uploads[k].pc \in {"dimensions", "mutate"}}

\* handleFile up to its first await: the checks of type and size, then
\* isUploading and the wait for the dimensions of the image.
HandleFile(file) ==
    /\ \E k \in 1..MaxFiles : uploads[k].pc = "none"
    /\ images_id_seq + Cardinality(Uploading) < MaxImages
    /\ IF ~IsImageType(file.type)
       THEN /\ uploaderError' = "Please select a valid image file"
            /\ uploads' = [uploads EXCEPT ![NextUpload] = [pc |-> "rejected", file |-> file]]
            /\ UNCHANGED isUploading
       ELSE IF file.size > MaxFileSize
       THEN /\ uploaderError' = "File size must be less than 10MB"
            /\ uploads' = [uploads EXCEPT ![NextUpload] = [pc |-> "rejected", file |-> file]]
            /\ UNCHANGED isUploading
       ELSE /\ isUploading' = TRUE
            /\ uploaderError' = ""
            /\ uploads' = [uploads EXCEPT ![NextUpload] = [pc |-> "dimensions", file |-> file]]
    /\ reply' = NoReply
    /\ UNCHANGED <<pager, server, app, manager>>

\* getImageDimensions: the promise resolves when the image has loaded, and
\* in no other case.
GetImageDimensions(file) == IF file.decodes THEN {"resolved"} ELSE {}

\* The upload data handleFile prepares.
UploadData(file) ==
    [filename |-> ToString(now) \o "_" \o file.name,
     original_filename |-> file.name,
     file_path |-> "/uploads/" \o ToString(now) \o "_" \o file.name,
     file_size |-> file.size,
     mime_type |-> file.type,
     width |-> file.width,
     height |-> file.height]

\* `catch (err) { setError(...) } finally { setIsUploading(false) }`
UploadFailed(k, message) ==
    /\ uploaderError' = message
    /\ isUploading' = FALSE
    /\ uploads' = [uploads EXCEPT ![k].pc = "done"]
    /\ UNCHANGED <<pager, server, app, manager>>

\* handleFile from the dimensions to the call of uploadImage.
DimensionsSettled(k) ==
    /\ uploads[k].pc = "dimensions"
    /\ \E settled \in GetImageDimensions(uploads[k].file) :
          IF settled = "resolved"
          THEN /\ uploads' = [uploads EXCEPT ![k] =
                                 [pc |-> "mutate", file |-> @.file,
                                  uploadData |-> UploadData(@.file)]]
               /\ UNCHANGED <<pager, server, app, isUploading, uploaderError, manager>>
          ELSE UploadFailed(k, "Upload failed")
    /\ reply' = NoReply

\* The request of handleFile reaches uploadImage.
UploadImageCall(c, k) ==
    /\ uploads[k].pc = "mutate"
    /\ UploadImage(c, uploads[k].uploadData)

\* handleImageUploaded of App.
HandleImageUploaded(image, imageSrc) ==
    /\ currentImage' = <<image>>
    /\ currentImageSrc' = imageSrc
    /\ error' = ""
    /\ UNCHANGED <<operations, isLoading, polls>>

\* The call of handleFile an answer of uploadImage belongs to.
Awaits(k) ==
    /\ uploads[k].pc = "mutate"
    /\ reply.op = "uploadImage"
    /\ reply.input = uploads[k].uploadData
    /\ \A j \in 1..(k - 1) : ~(uploads[j].pc = "mutate" /\ reply.input = uploads[j].uploadData)

\* handleFile from the answer of uploadImage to its end.
UploadAnswered(k) ==
    /\ Awaits(k)
    /\ IF reply.result.status = "ok"
       THEN /\ HandleImageUploaded(reply.result.value, "blob:" \o uploads[k].file.name)
            /\ isUploading' = FALSE
            /\ uploads' = [uploads EXCEPT ![k].pc = "done"]
            /\ UNCHANGED <<pager, server, uploaderError, manager>>
       ELSE UploadFailed(k, reply.result.message)
    /\ reply' = NoReply

\* The request of handleFile fails on its way: the mutation throws.
UploadThrows(k) ==
    /\ uploads[k].pc = "mutate"
    /\ UploadFailed(k, "Failed to fetch")
    /\ reply' = NoReply

\* A step of a call of handleFile past its checks: the dimensions are
\* there, the request is sent and answered or fails, the answer is handled.
UploadStep(k) ==
    \/ Delivered /\ DimensionsSettled(k)
    \/ \E c \in Callers : Delivered /\ UploadImageCall(c, k)
    \/ UploadAnswered(k)
    \/ Delivered /\ UploadThrows(k)

\* The uploader against this server, with every file a user may choose or
\* drop.
NextUploader ==
    \/ \E file \in Files : Delivered /\ HandleFile(file)
    \/ \E k \in 1..MaxFiles : UploadStep(k)

\* The browser runs the code after an await once what it awaits has settled,
\* and a request is answered or fails.
SpecUploader ==
    /\ Init
    /\ [][NextUploader]_vars
    /\ \A k \in 1..MaxFiles : WF_vars(UploadStep(k))

(***************************************************************************)
(* App: the tools, handleOperationStarted and pollOperationResult.         *)
(***************************************************************************)
maxAttempts == 60

\* The submit control of a tool: its tab is disabled without an image, the
\* control itself while isProcessing.
CanSubmit == currentImage # NULL /\ ~isLoading

\* The requests the tools build for the image being edited.
RemovalInput ==
    [image_id |-> currentImage[1].id, mask_data |-> MaskData,
     parameters |-> RemovalParameters]

StyleInput ==
    [image_id |-> currentImage[1].id, prompt |-> Prompt, parameters |-> StyleParameters]

ModificationInput ==
    [image_id |-> currentImage[1].id, prompt |-> Prompt, mask_data |-> NULL,
     parameters |-> StyleParameters]

Tools == {"removeObject", "applyStyleTransfer", "modifyImage"}

\* handleOperationStarted, with the first call of poll().
HandleOperationStarted ==
    /\ reply.op \in Tools
    /\ reply.result.status = "ok"
    /\ LET operation == reply.result.value
       IN /\ operations' = <<operation>> \o operations
          /\ isLoading' = TRUE
          /\ polls' = [polls EXCEPT ![operation.id] =
                          [pc |-> "query", attempts |-> 0, queries |-> 1]]
    /\ reply' = NoReply
    /\ UNCHANGED <<pager, server, currentImage, currentImageSrc, error, uploader, manager>>

\* The catch of a tool: an alert, and no state of App changes.
SubmitFailed ==
    /\ reply.op \in Tools
    /\ reply.result.status = "error"
    /\ reply' = NoReply
    /\ UNCHANGED <<pager, server, client>>

\* The request of poll() reaches getOperationResult.
PollQuery(c, id) ==
    /\ polls[id].pc = "query"
    /\ GetOperationResult(c, [operation_id |-> id])

\* `attempts < maxAttempts`
RescheduleAlways(attempts) == TRUE

RescheduleOnceMore(attempts) == attempts <= maxAttempts

Reschedule(attempts) == attempts < maxAttempts

\* poll() from the answer of getOperationResult to its end.
PollResult(id) ==
    /\ polls[id].pc = "query"
    /\ reply.op = "getOperationResult"
    /\ reply.input.operation_id = id
    /\ LET result == reply.result.value
           attempts == polls[id].attempts + 1
       IN /\ operations' =
                IF Found(result)
                THEN [i \in DOMAIN operations |->
                        IF operations[i].id = id THEN result ELSE operations[i]]
                ELSE operations
          /\ IF Found(result) /\ result.status = "completed"
             THEN /\ isLoading' = FALSE
                  /\ currentImageSrc' = OrElse(result.result_image_path, currentImageSrc)
                  /\ polls' = [polls EXCEPT ![id] = Stopped]
                  /\ UNCHANGED error
             ELSE IF Found(result) /\ result.status = "failed"
             THEN /\ isLoading' = FALSE
                  /\ error' = OrElse(result.error_message, "Operation failed")
                  /\ polls' = [polls EXCEPT ![id] = Stopped]
                  /\ UNCHANGED currentImageSrc
             ELSE IF Reschedule(attempts)
             THEN /\ polls' = [polls EXCEPT ![id].attempts = attempts, ![id].pc = "timer"]
                  /\ UNCHANGED <<isLoading, error, currentImageSrc>>
             ELSE /\ isLoading' = FALSE
                  /\ error' = "Operation timed out"
                  /\ polls' = [polls EXCEPT ![id] = Stopped]
                  /\ UNCHANGED currentImageSrc
    /\ reply' = NoReply
    /\ UNCHANGED <<pager, server, currentImage, uploader, manager>>

\* The request of poll() fails: the catch of poll().
PollThrows(id) ==
    /\ polls[id].pc = "query"
    /\ isLoading' = FALSE
    /\ error' = "Failed to check operation status"
    /\ polls' = [polls EXCEPT ![id] = Stopped]
    /\ reply' = NoReply
    /\ UNCHANGED <<pager, server, currentImage, currentImageSrc, operations, uploader, manager>>

\* setTimeout(poll, 5000) fires: poll() sends its next request.
TimerFires(id) ==
    /\ polls[id].pc = "timer"
    /\ polls' = [polls EXCEPT ![id].pc = "query", ![id].queries = @ + 1]
    /\ reply' = NoReply
    /\ UNCHANGED <<pager, server, currentImage, currentImageSrc, operations, isLoading, error,
                   uploader, manager>>

\* clearError
ClearError ==
    /\ error # ""
    /\ error' = ""
    /\ reply' = NoReply
    /\ UNCHANGED <<pager, server, currentImage, currentImageSrc, operations, isLoading, polls,
                   uploader, manager>>

\* The editor against this server: a photo is uploaded, the tools start
\* operations on it and App polls for their results, while images may be
\* deleted.  One request is under way at a time.
NextEditor ==
    \/ Delivered /\ HandleFile(Photo)
    \/ \E k \in 1..MaxFiles : Delivered /\ DimensionsSettled(k)
    \/ \E c \in Callers, k \in 1..MaxFiles : Delivered /\ UploadImageCall(c, k)
    \/ \E k \in 1..MaxFiles : UploadAnswered(k)
    \/ \E id \in 1..MaxImages : Delivered /\ DeleteImage(id)
    \/ \E c \in Callers : Delivered /\ CanSubmit /\ RemoveObject(c, RemovalInput)
    \/ \E c \in Callers : Delivered /\ RemoveObjectInsert(c)
    \/ \E c \in Callers : Delivered /\ CanSubmit /\ ApplyStyleTransfer(c, StyleInput)
    \/ \E c \in Callers : Delivered /\ ApplyStyleTransferInsert(c)
    \/ \E c \in Callers : Delivered /\ CanSubmit /\ ModifyImage(c, ModificationInput)
    \/ \E c \in Callers : Delivered /\ ModifyImageInsert(c)
    \/ HandleOperationStarted
    \/ SubmitFailed
    \/ \E c \in Callers, id \in 1..MaxOps : Delivered /\ PollQuery(c, id)
    \/ \E id \in 1..MaxOps : PollResult(id)
    \/ \E id \in 1..MaxOps : Delivered /\ PollThrows(id)
    \/ \E id \in 1..MaxOps : Delivered /\ TimerFires(id)
    \/ Delivered /\ ClearError

SpecEditor == Init /\ [][NextEditor]_vars

\* A step of the poll loop of an operation: its request is answered, the
\* answer is handled, or its timer fires.
PollStep(id) ==
    \/ \E c \in Callers : Delivered /\ PollQuery(c, id)
    \/ PollResult(id)
    \/ Delivered /\ TimerFires(id)

\* The rest of handleFile or of a tool's handler runs on the answer it
\* awaited.
Continuation ==
    \/ \E k \in 1..MaxFiles : UploadAnswered(k)
    \/ HandleOperationStarted
    \/ SubmitFailed

\* The editor against this server when no request of a poll loop fails.
\* The server answers every request, the browser runs the code after an
\* await once the answer is there, and a timer that was set fires.
NextPatientEditor ==
    \/ Delivered /\ HandleFile(Photo)
    \/ \E k \in 1..MaxFiles : Delivered /\ DimensionsSettled(k)
    \/ \E c \in Callers, k \in 1..MaxFiles : Delivered /\ UploadImageCall(c, k)
    \/ \E id \in 1..MaxImages : Delivered /\ DeleteImage(id)
    \/ \E c \in Callers : Delivered /\ CanSubmit /\ RemoveObject(c, RemovalInput)
    \/ \E c \in Callers : Delivered /\ RemoveObjectInsert(c)
    \/ \E c \in Callers : Delivered /\ CanSubmit /\ ApplyStyleTransfer(c, StyleInput)
    \/ \E c \in Callers : Delivered /\ ApplyStyleTransferInsert(c)
    \/ \E c \in Callers : Delivered /\ CanSubmit /\ ModifyImage(c, ModificationInput)
    \/ \E c \in Callers : Delivered /\ ModifyImageInsert(c)
    \/ Continuation
    \/ \E id \in 1..MaxOps : PollStep(id)

SpecPatientEditor ==
    /\ Init
    /\ [][NextPatientEditor]_vars
    /\ WF_vars(Continuation)
    /\ \A id \in 1..MaxOps : WF_vars(PollStep(id))

\* The editor with a request more under way: a tool may be submitted again
\* while the request of an earlier submission is on its way.
NextImpatientEditor ==
    \/ Delivered /\ HandleFile(Photo)
    \/ \E k \in 1..MaxFiles : Delivered /\ DimensionsSettled(k)
    \/ \E c \in Sessions, k \in 1..MaxFiles : Delivered /\ UploadImageCall(c, k)
    \/ \E k \in 1..MaxFiles : UploadAnswered(k)
    \/ \E c \in Sessions : Delivered /\ CanSubmit /\ RemoveObject(c, RemovalInput)
    \/ \E c \in Sessions : Delivered /\ RemoveObjectInsert(c)
    \/ \E c \in Sessions : Delivered /\ CanSubmit /\ ApplyStyleTransfer(c, StyleInput)
    \/ \E c \in Sessions : Delivered /\ ApplyStyleTransferInsert(c)
    \/ HandleOperationStarted
    \/ \E c \in Sessions, id \in 1..MaxOps : Delivered /\ PollQuery(c, id)
    \/ \E id \in 1..MaxOps : PollResult(id)
    \/ \E id \in 1..MaxOps : Delivered /\ PollThrows(id)
    \/ \E id \in 1..MaxOps : Delivered /\ TimerFires(id)

SpecImpatientEditor == Init /\ [][NextImpatientEditor]_vars

\* The outcomes of the worker that took some time.
TimedOutcomes == {outcome \in WorkerOutcomes : outcome.processing_time # <<0>>}

\* The editor with the worker: the operations the removal tool has started
\* are completed or failed while App polls for them.
NextProcessedEditor ==
    \/ Delivered /\ HandleFile(Photo)
    \/ \E k \in 1..MaxFiles : Delivered /\ DimensionsSettled(k)
    \/ \E c \in Callers, k \in 1..MaxFiles : Delivered /\ UploadImageCall(c, k)
    \/ \E k \in 1..MaxFiles : UploadAnswered(k)
    \/ \E c \in Callers : Delivered /\ CanSubmit /\ RemoveObject(c, RemovalInput)
    \/ \E c \in Callers : Delivered /\ RemoveObjectInsert(c)
    \/ HandleOperationStarted
    \/ \E id \in 1..MaxOps, outcome \in TimedOutcomes : Delivered /\ Worker(id, outcome)
    \/ \E c \in Callers, id \in 1..MaxOps : Delivered /\ PollQuery(c, id)
    \/ \E id \in 1..MaxOps : PollResult(id)
    \/ \E id \in 1..MaxOps : Delivered /\ PollThrows(id)
    \/ \E id \in 1..MaxOps : Delivered /\ TimerFires(id)

SpecProcessedEditor == Init /\ [][NextProcessedEditor]_vars

(***************************************************************************)
(* The optional, nullable texts: mask_data of modifyImage and description  *)
(* of createProject are z.string().nullable().optional().                  *)
(***************************************************************************)
\* modifyImage and createProject with their optional text omitted, null,
\* the empty string and a text.
NextOptionalTexts ==
    \/ \E c \in Callers : UploadImage(c, CHOOSE input \in UploadInputs : TRUE)
    \/ \E c \in Callers, i \in ReferencedIds,
          f \in {Omitted} \cup {[mask_data |-> m] : m \in {NULL, <<"">>, <<MaskData>>}} :
          ModifyImage(c, [image_id |-> i, prompt |-> Prompt] @@ f)
    \/ \E c \in Callers : ModifyImageInsert(c)
    \/ \E c \in Callers, i \in ReferencedIds,
          f \in {Omitted}
                \cup {[description |-> d] : d \in {NULL, <<"">>, <<"A project">>}} :
          CreateProject(c, [name |-> "Test Project", original_image_id |-> i] @@ f)
    \/ \E c \in Callers : CreateProjectInsert(c)

SpecOptionalTexts == Init /\ [][NextOptionalTexts]_vars

(***************************************************************************)
(* ProjectManager.                                                         *)
(***************************************************************************)
\* createInput: `description: newProjectDescription.trim() || null`
CreateInput(description) ==
    [name |-> "Test Project",
     description |-> IF description = "" THEN NULL ELSE <<description>>,
     original_image_id |-> currentImage[1].id,
     is_public |-> FALSE]

\* updateInput, with Date.now() in the path and in the history.
UpdateInput ==
    [id |-> activeProject[1].id,
     current_image_path |->
        "/results/current_" \o ToString(activeProject[1].id) \o "_"
            \o ToString(now) \o ".jpg",
     operations_history |->
        "{\"last_updated\":\"" \o ToString(now) \o "\",\"operations_count\":0}"]

\* handleCreateProject up to its await; the button is disabled while
\* isLoading and without an image.
HandleCreateProject(description) ==
    /\ ~managerIsLoading
    /\ managerCall = Idle
    /\ currentImage # NULL
    /\ managerIsLoading' = TRUE
    /\ managerCall' = [pc |-> "create", input |-> CreateInput(description)]
    /\ reply' = NoReply
    /\ UNCHANGED <<pager, server, app, uploader, managerProjects, activeProject, managerError>>

\* The request of handleCreateProject reaches createProject.
CreateProjectCall(c) ==
    /\ managerCall.pc = "create"
    /\ CreateProject(c, managerCall.input)

\* handleCreateProject from the answer of createProject to its end.
CreateAnswered ==
    /\ managerCall.pc = "create"
    /\ reply.op = "createProject"
    /\ IF reply.result.status = "ok"
       THEN /\ managerProjects' = <<reply.result.value>> \o managerProjects
            /\ activeProject' = <<reply.result.value>>
            /\ managerError' = ""
       ELSE /\ managerError' = "Failed to create project"
            /\ UNCHANGED <<managerProjects, activeProject>>
    /\ managerIsLoading' = FALSE
    /\ managerCall' = Idle
    /\ reply' = NoReply
    /\ UNCHANGED <<pager, server, app, uploader>>

\* handleSaveProject up to its await; the button is shown for an active
\* project and disabled while isLoading.
HandleSaveProject ==
    /\ ~managerIsLoading
    /\ managerCall = Idle
    /\ activeProject # NULL
    /\ currentImage # NULL
    /\ managerIsLoading' = TRUE
    /\ managerCall' = [pc |-> "save", input |-> UpdateInput]
    /\ reply' = NoReply
    /\ UNCHANGED <<pager, server, app, uploader, managerProjects, activeProject, managerError>>

\* The request of handleSaveProject reaches updateProject.
UpdateProjectCall(c) ==
    /\ managerCall.pc = "save"
    /\ UpdateProject(c, managerCall.input)

\* handleSaveProject from the answer of updateProject to its end.  The list
\* is mapped, the updated project taking the place of the one with its id.
\* `else { setError('Failed to update project') }` is followed by
\* `setError('')`, outside the if: the last value set is the state.
SaveAnswered ==
    /\ managerCall.pc = "save"
    /\ reply.op = "updateProject"
    /\ IF reply.result.status = "ok"
       THEN LET updatedProject == reply.result.value
            IN /\ IF updatedProject # NULL
                  THEN /\ managerProjects' =
                              [i \in DOMAIN managerProjects |->
                                 IF managerProjects[i].id = updatedProject.id
                                 THEN updatedProject ELSE managerProjects[i]]
                       /\ activeProject' = <<updatedProject>>
                  ELSE UNCHANGED <<managerProjects, activeProject>>
               /\ managerError' = ""
       ELSE /\ managerError' = "Failed to save project"
            /\ UNCHANGED <<managerProjects, activeProject>>
    /\ managerIsLoading' = FALSE
    /\ managerCall' = Idle
    /\ reply' = NoReply
    /\ UNCHANGED <<pager, server, app, uploader>>

\* The project manager against this server: a photo is uploaded, projects
\* are created for it and saved, while the clock advances and images, with
\* their projects, may be deleted.
NextManager ==
    \/ Delivered /\ HandleFile(Photo)
    \/ \E k \in 1..MaxFiles : Delivered /\ DimensionsSettled(k)
    \/ \E c \in Callers, k \in 1..MaxFiles : Delivered /\ UploadImageCall(c, k)
    \/ \E k \in 1..MaxFiles : UploadAnswered(k)
    \/ Delivered /\ Tick
    \/ \E id \in 1..MaxImages : Delivered /\ DeleteImage(id)
    \/ \E description \in {"", "A project"} :
          Delivered /\ HandleCreateProject(description)
    \/ \E c \in Callers : Delivered /\ CreateProjectCall(c)
    \/ \E c \in Callers : Delivered /\ CreateProjectInsert(c)
    \/ CreateAnswered
    \/ Delivered /\ HandleSaveProject
    \/ \E c \in Callers : Delivered /\ UpdateProjectCall(c)
    \/ SaveAnswered

SpecManager == Init /\ [][NextManager]_vars

(***************************************************************************)
(* Paging through listProjects.                                            *)
(***************************************************************************)
\* A client starts to page with a fixed limit, at offset 0.
StartPaging(limit, public_only) ==
    /\ pager.pc = "none"
    /\ pager' = [pc |-> "next", limit |-> limit, public_only |-> public_only,
                 offset |-> 0, listed |-> <<>>]
    /\ reply' = NoReply
    /\ UNCHANGED <<server, app, uploader, manager>>

\* The request for the next page reaches listProjects.
PageCall(c) ==
    /\ pager.pc = "next"
    /\ ListProjects(c, [limit |-> pager.limit, offset |-> pager.offset,
                        public_only |-> pager.public_only])

\* A page has arrived: its projects are added to the ones listed so far,
\* and the next page starts where this one ends, unless that is at or past
\* the total.
PageAnswered ==
    /\ pager.pc = "next"
    /\ reply.op = "listProjects"
    /\ LET result == reply.result.value
       IN pager' = [pager EXCEPT
                       !.listed = @ \o result.projects,
                       !.offset = @ + pager.limit,
                       !.pc = IF pager.offset + pager.limit >= result.total
                              THEN "done" ELSE "next"]
    /\ reply' = NoReply
    /\ UNCHANGED <<server, app, uploader, manager>>

\* Images and projects are created; then a client pages through the
\* projects, and the table is not written while it does.  A page that has
\* arrived is handled before anything else happens.
NextPaging ==
    \/ \E c \in Callers :
          reply.op # "listProjects" /\ pager.pc = "none"
              /\ UploadImage(c, CHOOSE input \in UploadInputs : TRUE)
    \/ \E c \in Callers, input \in CreateProjectInputs :
          reply.op # "listProjects" /\ pager.pc = "none" /\ CreateProject(c, input)
    \/ \E c \in Callers : reply.op # "listProjects" /\ pager.pc = "none" /\ CreateProjectInsert(c)
    \/ \E limit \in 1..MaxProjects, public_only \in BOOLEAN :
          reply.op # "listProjects" /\ calls = [c \in Sessions |-> Idle]
              /\ StartPaging(limit, public_only)
    \/ \E c \in Callers : reply.op # "listProjects" /\ PageCall(c)
    \/ \E c \in Callers : reply.op # "listProjects" /\ ListProjectsReturn(c)
    \/ PageAnswered

SpecPaging == Init /\ [][NextPaging]_vars

(***************************************************************************)
(* Properties.                                                             *)
(***************************************************************************)
NoImage(id) == \A r \in images : r.id # id

\* The step answers a request of `op` with its first statement.
AnsweredAtOnce(op) == reply'.op = op /\ calls' = calls

\* The step takes caller c's request of `op` on to its insert.
GoesOnToInsert(c, op) ==
    /\ calls[c] = Idle
    /\ calls'[c] # Idle
    /\ calls'[c].pc = "insert"
    /\ calls'[c].op = op

\* C1: a removeObject, applyStyleTransfer or modifyImage request made when no
\* row of images has its image_id goes on to no insert: it fails with the
\* error 'Image with id <image_id> not found', and the step leaves
\* ai_operations as it was.
C1_MissingImageRaises ==
    [][\A op \in {"removeObject", "applyStyleTransfer", "modifyImage"} :
          /\ \A c \in Callers :
                GoesOnToInsert(c, op) => ~NoImage(calls'[c].input.image_id)
          /\ AnsweredAtOnce(op) /\ NoImage(reply'.input.image_id)
             => /\ reply'.result =
                     [status |-> "error",
                      message |-> "Image with id " \o ToString(reply'.input.image_id)
                                  \o " not found"]
                /\ ai_operations' = ai_operations
                /\ ai_operations_id_seq' = ai_operations_id_seq]_vars

\* A creation request for image 999999 was refused while images and
\* operations of other images are stored.
C1_Witness ==
    /\ reply.op \in {"removeObject", "applyStyleTransfer", "modifyImage"}
    /\ reply.input.image_id = NoSuchId
    /\ reply.result.status = "error"
    /\ images # {}
    /\ ai_operations # {}

OperationTypeOf(op) ==
    CASE op = "removeObject" -> "object_removal"
      [] op = "applyStyleTransfer" -> "style_transfer"
      [] op = "modifyImage" -> "image_modification"

\* The step answers a request of `op` that was waiting for its insert.
Inserted(c, op) ==
    /\ calls[c].pc = "insert"
    /\ calls[c].op = op
    /\ calls'[c] = Idle

\* C2: the insert of removeObject, applyStyleTransfer or modifyImage for an
\* image that exists adds exactly one row to ai_operations, and the row
\* returned is the row stored: status 'pending', the operation_type of the
\* procedure, the given image_id, and result_image_path, error_message and
\* processing_time null.
C2_PendingRowCreated ==
    [][\A c \in Callers, op \in {"removeObject", "applyStyleTransfer", "modifyImage"} :
          Inserted(c, op) /\ ~NoImage(calls[c].input.image_id)
          => /\ reply'.op = op
             /\ reply'.input = calls[c].input
             /\ reply'.result.status = "ok"
             /\ LET row == reply'.result.value
                IN /\ row \notin ai_operations
                   /\ ai_operations' = ai_operations \cup {row}
                   /\ Cardinality(ai_operations') = Cardinality(ai_operations) + 1
                   /\ row.status = "pending"
                   /\ row.operation_type = OperationTypeOf(op)
                   /\ row.image_id = calls[c].input.image_id
                   /\ row.result_image_path = NULL
                   /\ row.error_message = NULL
                   /\ row.processing_time = NULL]_vars

\* A second operation was created and returned.
C2_Witness ==
    /\ reply.op \in {"removeObject", "applyStyleTransfer", "modifyImage"}
    /\ reply.result.status = "ok"
    /\ reply.result.value \in ai_operations
    /\ Cardinality(ai_operations) = 2

\* C3: whatever the eleven procedures have done, every row of ai_operations
\* has status 'pending' and result_image_path, error_message and
\* processing_time null.
C3_OperationsStayPending ==
    \A o \in ai_operations :
        /\ o.status = "pending"
        /\ o.result_image_path = NULL
        /\ o.error_message = NULL
        /\ o.processing_time = NULL

\* Two operations are stored, a project has been updated and an operation
\* has just been read.
C3_Witness ==
    /\ Cardinality(ai_operations) = 2
    /\ \E p \in projects : p.updated_at > p.created_at
    /\ reply.op = "getOperationResult"
    /\ reply.result.value # NULL

\* Every operation and every project references a row of images.
ReferencesHold ==
    /\ \A o \in ai_operations : \E r \in images : r.id = o.image_id
    /\ \A p \in projects : \E r \in images : r.id = p.original_image_id

\* The answer of a handler whose insert the foreign key refused.
ForeignKeyError(table) ==
    [status |-> "error",
     message |-> "insert or update on table \"" \o table
                 \o "\" violates foreign key constraint"]

\* C4: when the image a creation handler has found is deleted before the
\* handler's insert, the insert fails with the foreign-key error of the
\* database, which is the outcome of the request, and stores nothing; in
\* every state each operation and each project references an existing image.
C4_RaceEndsInForeignKeyError ==
    /\ []ReferencesHold
    /\ [][/\ \A c \in Callers, op \in {"removeObject", "applyStyleTransfer", "modifyImage"} :
               Inserted(c, op) /\ NoImage(calls[c].input.image_id)
               => /\ reply'.op = op
                  /\ reply'.input = calls[c].input
                  /\ reply'.result = ForeignKeyError("ai_operations")
                  /\ ai_operations' = ai_operations
                  /\ projects' = projects
          /\ \A c \in Callers :
               Inserted(c, "createProject") /\ NoImage(calls[c].input.original_image_id)
               => /\ reply'.op = "createProject"
                  /\ reply'.input = calls[c].input
                  /\ reply'.result = ForeignKeyError("projects")
                  /\ ai_operations' = ai_operations
                  /\ projects' = projects]_vars

\* An insert has just failed on the foreign key while operations and
\* projects of another image are stored.
C4_Witness ==
    /\ reply.op \in {"removeObject", "applyStyleTransfer", "modifyImage", "createProject"}
    /\ reply.result.status = "error"
    /\ reply.result.message \in
         {"insert or update on table \"ai_operations\" violates foreign key constraint",
          "insert or update on table \"projects\" violates foreign key constraint"}
    /\ ai_operations # {}
    /\ projects # {}

\* C5: a step that deletes rows of images deletes exactly the operations and
\* the projects that reference a deleted image, and no other row.
C5_DeleteCascades ==
    [][images' # images /\ images' \subseteq images
       => LET gone == {r.id : r \in images \ images'}
          IN /\ ai_operations' = {o \in ai_operations : o.image_id \notin gone}
             /\ projects' = {p \in projects : p.original_image_id \notin gone}]_vars

\* An image has just been deleted with an operation and a project of its
\* own, and an operation and a project of the other image remain.
C5_Witness ==
    /\ reply.op = "DELETE"
    /\ Cardinality(images) = 1
    /\ ai_operations_id_seq = 2 /\ Cardinality(ai_operations) = 1
    /\ projects_id_seq = 2 /\ Cardinality(projects) = 1

\* The table a read by id selects from, and the id it names.
TableRead(op) ==
    CASE op = "getImage" -> images
      [] op = "getProject" -> projects
      [] op = "getOperationResult" -> ai_operations

IdRead(op, input) == IF op = "getOperationResult" THEN input.operation_id ELSE input.id

\* C6: getImage, getProject and getOperationResult answer without an error:
\* null when no row of their table has the id, zero and negative ids
\* included, and the row that has it otherwise; they change no table and no
\* sequence.
C6_ReadsAnswerNullOrRow ==
    [][\A op \in {"getImage", "getProject", "getOperationResult"} :
          reply'.op = op
          => LET rows == {r \in TableRead(op) : r.id = IdRead(op, reply'.input)}
             IN /\ reply'.result.status = "ok"
                /\ IF rows = {}
                   THEN reply'.result.value = NULL
                   ELSE reply'.result.value \in rows
                /\ db' = db
                /\ seqs' = seqs]_vars

\* getProject has just answered null for id 0 while a project is stored.
C6_Witness ==
    /\ reply.op = "getProject"
    /\ reply.input.id = 0
    /\ reply.result = [status |-> "ok", value |-> NULL]
    /\ projects # {}

\* C7: the insert of createProject for an image that exists adds exactly one
\* project, the one returned: its current_image_path is the file_path stored
\* for that image, its operations_history is '[]', and its name,
\* original_image_id and is_public are those of the input (is_public false
\* when omitted).
C7_ProjectSeededFromImage ==
    [][\A c \in Callers :
          Inserted(c, "createProject") /\ ~NoImage(calls[c].input.original_image_id)
          => /\ reply'.op = "createProject"
             /\ reply'.input = calls[c].input
             /\ reply'.result.status = "ok"
             /\ LET row == reply'.result.value
                    input == calls[c].input
                    image == CHOOSE r \in images : r.id = input.original_image_id
                IN /\ row \notin projects
                   /\ projects' = projects \cup {row}
                   /\ Cardinality(projects') = Cardinality(projects) + 1
                   /\ row.current_image_path = image.file_path
                   /\ row.operations_history = "[]"
                   /\ row.name = input.name
                   /\ row.original_image_id = input.original_image_id
                   /\ row.is_public = (IF "is_public" \in DOMAIN input
                                       THEN input.is_public ELSE FALSE)]_vars

\* A project of the second image was created next to one of the first, each
\* with the path of its own image.
C7_Witness ==
    /\ reply.op = "createProject"
    /\ reply.result.status = "ok"
    /\ reply.result.value \in projects
    /\ \E p, q \in projects : p.current_image_path # q.current_image_path
    /\ \A p \in projects : \E r \in images :
          r.id = p.original_image_id /\ r.file_path = p.current_image_path

\* C8: a createProject request made when no row of images has its
\* original_image_id goes on to no insert: it fails with the error 'Image
\* with id <id> not found', and the step leaves projects as it was.
C8_ProjectOfMissingImageRaises ==
    [][/\ \A c \in Callers :
            GoesOnToInsert(c, "createProject")
            => ~NoImage(calls'[c].input.original_image_id)
       /\ AnsweredAtOnce("createProject") /\ NoImage(reply'.input.original_image_id)
          => /\ reply'.result =
                  [status |-> "error",
                   message |-> "Image with id "
                               \o ToString(reply'.input.original_image_id)
                               \o " not found"]
             /\ projects' = projects
             /\ projects_id_seq' = projects_id_seq]_vars

\* A project for image 999999 was refused while a project is stored.
C8_Witness ==
    /\ reply.op = "createProject"
    /\ reply.input.original_image_id = NoSuchId
    /\ reply.result.status = "error"
    /\ projects # {}

\* The project an updateProject request names, as stored before the step.
Stored(input) == CHOOSE p \in projects : p.id = input.id

Exists(input) == \E p \in projects : p.id = input.id

MutableFields ==
    {"name", "description", "current_image_path", "operations_history", "is_public"}

C11_UpdateOfMissingProjectIsNull ==
    [][reply'.op = "updateProject" /\ ~Exists(reply'.input)
       => /\ reply'.result = [status |-> "ok", value |-> NULL]
          /\ projects' = projects
          /\ db' = db
          /\ seqs' = seqs]_vars

\* An update that names project 999999 and supplies a name has just answered
\* null, and the two stored projects keep the name they were created with.
C11_Witness ==
    /\ reply.op = "updateProject"
    /\ reply.input.id = NoSuchId
    /\ "name" \in DOMAIN reply.input
    /\ reply.result = [status |-> "ok", value |-> NULL]
    /\ Cardinality(projects) = 2
    /\ \A p \in projects : p.name = "Test Project"

\* The step runs the page query, or the count query, of caller c's
\* listProjects request: as the first of the two, when the request starts,
\* or as the second, when it returns.
RanPageQuery(c) ==
    \/ calls[c].pc = "idle" /\ calls'[c].pc = "count"
    \/ calls[c].pc = "page" /\ calls'[c].pc = "idle"

RanCountQuery(c) ==
    \/ calls[c].pc = "idle" /\ calls'[c].pc = "page"
    \/ calls[c].pc = "count" /\ calls'[c].pc = "idle"

\* The step returns from caller c's listProjects request.
ReturnedListing(c) == calls[c].pc \in {"count", "page"} /\ calls'[c].pc = "idle"

\* The input of that request, and what the query of the step read.
ListingInput(c) == IF calls[c].pc = "idle" THEN calls'[c].input ELSE calls[c].input

PageRead(c) ==
    IF calls[c].pc = "idle" THEN calls'[c].projects ELSE reply'.result.value.projects

TotalRead(c) ==
    IF calls[c].pc = "idle" THEN calls'[c].total ELSE reply'.result.value.total

\* The rows of projects a listing with this input is about.
RowsListed(input) ==
    IF input.public_only THEN {p \in projects : p.is_public = TRUE} ELSE projects

\* C12: with public_only true the page query of listProjects reads public
\* rows of projects only and the count query reads the number of public rows
\* of the table, whatever limit and offset are; with public_only false the
\* count is the number of all rows of projects.
C12_PublicOnlyFilters ==
    [][\A c \in Callers :
          /\ RanPageQuery(c)
             => \A i \in DOMAIN PageRead(c) :
                   /\ PageRead(c)[i] \in projects
                   /\ ListingInput(c).public_only => PageRead(c)[i].is_public = TRUE
          /\ RanCountQuery(c)
             => TotalRead(c) = IF ListingInput(c).public_only
                               THEN Cardinality({p \in projects : p.is_public = TRUE})
                               ELSE Cardinality(projects)
          /\ ReturnedListing(c) /\ ListingInput(c).public_only
             => \A i \in DOMAIN reply'.result.value.projects :
                   reply'.result.value.projects[i].is_public = TRUE]_vars

\* A listing of the public projects with limit 1 and offset 1 has just
\* returned an empty page and total 1: one of the two projects is public.
C12_Witness ==
    /\ reply.op = "listProjects"
    /\ reply.input = [limit |-> 1, offset |-> 1, public_only |-> TRUE]
    /\ reply.result.value.projects = <<>>
    /\ reply.result.value.total = 1
    /\ Cardinality(projects) = 2
    /\ Cardinality({p \in projects : p.is_public = TRUE}) = 1

Min(a, b) == IF a < b THEN a ELSE b

Max(a, b) == IF a < b THEN b ELSE a

\* C13: when no write to projects runs between the two queries of a
\* listProjects request and N rows match its filter, the request returns
\* min(limit, max(0, N - offset)) rows, each a matching row and none twice,
\* and total N: an empty page with total N when offset is N or more, and an
\* empty page with total 0 for an empty table.
C13_PageLengthAndTotal ==
    [][\A c \in Callers :
          ReturnedListing(c)
          => LET input == calls[c].input
                 N == Cardinality(RowsListed(input))
                 page == reply'.result.value.projects
             IN /\ reply'.op = "listProjects"
                /\ reply'.result.status = "ok"
                /\ Len(page) = Min(input.limit, Max(0, N - input.offset))
                /\ \A i \in DOMAIN page : page[i] \in RowsListed(input)
                /\ \A i, j \in DOMAIN page : i # j => page[i] # page[j]
                /\ reply'.result.value.total = N
                /\ input.offset >= N => page = <<>>
                /\ projects = {} => page = <<>> /\ reply'.result.value.total = 0]_vars

\* A listing with limit 1 and offset 1 has just returned the one row left
\* of two, with total 2.
C13_Witness ==
    /\ reply.op = "listProjects"
    /\ reply.input = [limit |-> 1, offset |-> 1, public_only |-> FALSE]
    /\ Len(reply.result.value.projects) = 1
    /\ reply.result.value.total = 2
    /\ Cardinality(projects) = 2

\* C14: each of the two queries of listProjects reads the projects table
\* as it is when that query runs, and the request returns what the first
\* query read together with what the second reads, so that after a write
\* between them the total is not the number of matching rows of the state
\* the page was read from.
C14_TwoQueriesTwoStates ==
    [][\A c \in Callers :
          /\ RanPageQuery(c)
             => LET rows == RowsListed(ListingInput(c))
                IN /\ Len(PageRead(c)) =
                        Min(ListingInput(c).limit,
                            Max(0, Cardinality(rows) - ListingInput(c).offset))
                   /\ \A i \in DOMAIN PageRead(c) : PageRead(c)[i] \in rows
          /\ RanCountQuery(c)
             => TotalRead(c) = Cardinality(RowsListed(ListingInput(c)))
          /\ ReturnedListing(c) /\ calls[c].pc = "count"
             => reply'.result.value.projects = calls[c].projects
          /\ ReturnedListing(c) /\ calls[c].pc = "page"
             => reply'.result.value.total = calls[c].total]_vars

\* A listing of all projects with limit 20 has just returned a page of one
\* row with total 2: the second project was inserted between the page query
\* and the count query, and no project has been deleted.
C14_Witness ==
    /\ reply.op = "listProjects"
    /\ reply.input = [limit |-> 20, offset |-> 0, public_only |-> FALSE]
    /\ Len(reply.result.value.projects) = 1
    /\ reply.result.value.total = 2
    /\ Cardinality(projects) = 2

\* C15: in the list listOperations returns, a row that comes earlier has a
\* created_at greater than or equal to that of every row that comes later,
\* so of two rows created at different times the more recent comes first.
C15_MostRecentFirst ==
    [][reply'.op = "listOperations"
       => LET results == reply'.result.value
          IN /\ reply'.result.status = "ok"
             /\ \A i, j \in DOMAIN results :
                   i < j => results[i].created_at >= results[j].created_at
             /\ \A i, j \in DOMAIN results :
                   results[i].created_at > results[j].created_at => i < j]_vars

\* listOperations has just returned two operations of image 1 created at
\* different times, the later one first.
C15_Witness ==
    /\ reply.op = "listOperations"
    /\ reply.input = [image_id |-> 1]
    /\ Len(reply.result.value) = 2
    /\ reply.result.value[1].created_at > reply.result.value[2].created_at

\* C16: listOperations with an image id returns each row of ai_operations
\* whose image_id is that id exactly once and no other row, the empty list
\* when there is none; with no argument it returns each row of ai_operations
\* exactly once; it changes no table.
C16_ListIsTheFilteredTable ==
    [][reply'.op = "listOperations"
       => LET results == reply'.result.value
              wanted == IF "image_id" \in DOMAIN reply'.input
                        THEN {o \in ai_operations : o.image_id = reply'.input.image_id}
                        ELSE ai_operations
          IN /\ reply'.result.status = "ok"
             /\ {results[i] : i \in DOMAIN results} = wanted
             /\ Len(results) = Cardinality(wanted)
             /\ wanted = {} => results = <<>>
             /\ db' = db]_vars

\* listOperations for image 1 has just returned the one operation of image
\* 1 and left out the operation of image 2.
C16_Witness ==
    /\ reply.op = "listOperations"
    /\ reply.input = [image_id |-> 1]
    /\ Len(reply.result.value) = 1
    /\ reply.result.value[1].image_id = 1
    /\ Cardinality(ai_operations) = 2
    /\ \E o \in ai_operations : o.image_id = 2

\* C17: the row uploadImage returns is the row it stored, with the
\* filename, original_filename, file_path, file_size, mime_type, width and
\* height of its input; no procedure removes or changes a stored image or
\* gives its id to another row; and getImage with the id of a stored image
\* answers with that row.  So getImage with the id uploadImage returned
\* answers with the row uploadImage returned, whatever procedures ran in
\* between.
C17_UploadThenGetImage ==
    /\ [](reply.op = "uploadImage"
          => /\ reply.result.status = "ok"
             /\ reply.result.value \in images
             /\ \A f \in DOMAIN reply.input : reply.result.value[f] = reply.input[f])
    /\ [][/\ reply'.op # "DELETE" => images \subseteq images'
          /\ \A r \in images : (\E q \in images' : q.id = r.id) => r \in images'
          /\ \A q \in images' \ images :
                /\ q.id > images_id_seq
                /\ \A r \in images' : r.id = q.id => r = q
          /\ reply'.op = "getImage"
             => \A r \in images :
                   r.id = reply'.input.id
                   => reply'.result = [status |-> "ok", value |-> r]]_vars

\* getImage has just answered with image 1 after a second image was
\* uploaded and a project of image 1 was updated.
C17_Witness ==
    /\ reply.op = "getImage"
    /\ reply.input.id = 1
    /\ reply.result.value \in images
    /\ images_id_seq = 2
    /\ \E p \in projects : p.original_image_id = 1 /\ p.updated_at > p.created_at

\* C18: a step of an uploadImage request adds one new row to images and
\* leaves every other row of images as it was; a step of any other
\* procedure, whether it answers its request or not, leaves images
\* unchanged.  Rows of images go only by a deletion outside the procedures.
C18_ImagesImmutable ==
    [][reply'.op # "DELETE"
       => IF reply'.op = "uploadImage"
          THEN /\ reply'.result.status = "ok"
               /\ reply'.result.value \notin images
               /\ \A r \in images : r.id # reply'.result.value.id
               /\ images' = images \cup {reply'.result.value}
          ELSE images' = images]_vars

\* Both images are stored as uploaded after two operations were created and
\* a project was updated.
C18_Witness ==
    /\ Cardinality(images) = 2
    /\ Cardinality(ai_operations) = 2
    /\ reply.op = "updateProject"
    /\ reply.result.value # NULL
    /\ \A r \in images : r.updated_at = r.created_at

\* The stored operation a read returned as `row`.
StoredOperation(row) == CHOOSE o \in ai_operations : o.id = row.id

\* C19: the insert of a creation request stores parameters null when the
\* request has no parameter bag, and otherwise the JSON text of the bag,
\* which parses back to the bag submitted; removeObject stores the mask text
\* it was given.  getOperationResult and listOperations return the
\* parameters and mask_data of a stored row as they are stored.
C19_ParametersRoundTrip ==
    [][/\ \A c \in Callers, op \in {"removeObject", "applyStyleTransfer", "modifyImage"} :
            Inserted(c, op) /\ reply'.result.status = "ok"
            => LET row == reply'.result.value
                   input == calls[c].input
               IN /\ row \in ai_operations'
                  /\ IF "parameters" \in DOMAIN input
                     THEN /\ row.parameters # NULL
                          /\ JSONParse(row.parameters[1]) = input.parameters
                     ELSE /\ row.parameters = NULL
                          /\ row.parameters # <<"{}">>
                  /\ op = "removeObject" => row.mask_data = <<input.mask_data>>
                  /\ op = "removeObject" /\ "parameters" \in DOMAIN input
                     => row.parameters =
                           <<"{\"inpaint_strength\":0.9,\"guidance_scale\":10}">>
       /\ reply'.op = "getOperationResult" /\ reply'.result.value # NULL
          => /\ reply'.result.value.parameters =
                   StoredOperation(reply'.result.value).parameters
             /\ reply'.result.value.mask_data =
                   StoredOperation(reply'.result.value).mask_data
       /\ reply'.op = "listOperations"
          => \A i \in DOMAIN reply'.result.value :
                /\ reply'.result.value[i].parameters =
                      StoredOperation(reply'.result.value[i]).parameters
                /\ reply'.result.value[i].mask_data =
                      StoredOperation(reply'.result.value[i]).mask_data]_vars

\* listOperations has just returned an operation without parameters and an
\* operation whose parameters parse back to the bag of a removeObject
\* request, with the mask that request gave.
C19_Witness ==
    /\ reply.op = "listOperations"
    /\ Len(reply.result.value) = 2
    /\ \E i, j \in DOMAIN reply.result.value :
          /\ reply.result.value[i].parameters = NULL
          /\ reply.result.value[j].parameters # NULL
          /\ JSONParse(reply.result.value[j].parameters[1]) = RemovalParameters
          /\ reply.result.value[j].mask_data = <<MaskData>>

\* Every stored image has a positive size and positive dimensions, and
\* every listProjects request the handler is running has a limit of 1..100
\* and an offset not below 0.
InRange ==
    /\ \A r \in images : r.file_size > 0 /\ r.width > 0 /\ r.height > 0
    /\ \A c \in Callers :
          calls[c].pc \in {"count", "page"}
          => /\ calls[c].input.limit \in 1..100
             /\ calls[c].input.offset >= 0

\* The step refuses a request.
Refused == reply'.result.status = "error" /\ reply'.result.message = "BAD_REQUEST"

\* C20: an uploadImage request whose file_size, width or height is not
\* above 0 is refused, and so is a listProjects request whose limit is
\* outside 1..100 or whose offset is below 0: no listing starts with such
\* numbers.  A refusal is a step of the router that changes no table and no
\* sequence and starts no handler, and it is given only to a request with
\* a number out of range or a number that is no integer where the schema
\* asks for one.  An upload that is accepted stores a row of positive size
\* and dimensions, so InRange holds in every state.
C20_OutOfRangeRejected ==
    /\ []InRange
    /\ [][/\ reply'.op = "uploadImage"
             => /\ \/ reply'.input.file_size <= 0
                   \/ reply'.input.width <= 0
                   \/ reply'.input.height <= 0
                   => Refused
                /\ Refused
                   => /\ db' = db /\ seqs' = seqs /\ calls' = calls
                      /\ \/ reply'.input.file_size <= 0
                         \/ reply'.input.width <= 0 \/ reply'.input.width % 10 # 0
                         \/ reply'.input.height <= 0 \/ reply'.input.height % 10 # 0
                /\ reply'.result.status = "ok"
                   => /\ reply'.result.value \in images'
                      /\ reply'.result.value.file_size > 0
                      /\ reply'.result.value.width > 0
                      /\ reply'.result.value.height > 0
          /\ reply'.op = "listProjects" /\ Refused
             => /\ db' = db /\ seqs' = seqs /\ calls' = calls
                /\ \/ /\ "limit" \in DOMAIN reply'.input
                      /\ \/ reply'.input.limit % 10 # 0
                         \/ reply'.input.limit < 10
                         \/ reply'.input.limit > 1000
                   \/ /\ "offset" \in DOMAIN reply'.input
                      /\ \/ reply'.input.offset % 10 # 0
                         \/ reply'.input.offset < 0
          /\ \A c \in Callers :
                calls[c].pc = "idle" /\ calls'[c].pc \in {"count", "page"}
                => /\ calls'[c].input.limit \in 1..100
                   /\ calls'[c].input.offset >= 0
                   /\ calls'[c].input.public_only \in BOOLEAN]_vars

\* A listing with limit 101 has just been refused while an image is
\* stored, after every upload with a zero, negative or fractional number
\* could have been tried.
C20_Witness ==
    /\ reply.op = "listProjects"
    /\ reply.input = [limit |-> 1010]
    /\ reply.result = [status |-> "error", message |-> "BAD_REQUEST"]
    /\ images # {}
    /\ projects # {}

(***************************************************************************)
(* The client.                                                             *)
(***************************************************************************)
\* The answer of getOperationResult a poll loop is about to handle.
Answer(id) == reply.result.value

Answered(id) ==
    /\ polls[id].pc = "query"
    /\ reply.op = "getOperationResult"
    /\ reply.input.operation_id = id

\* `result` is a row whose status ends the loop.
Terminal(result) == Found(result) /\ result.status \in {"completed", "failed"}

\* C21: the poll loop of a started operation sends at most 60
\* getOperationResult queries.  A query that is answered null or with a row
\* neither completed nor failed is followed by another one while fewer than
\* 60 were sent; the 60th such answer stops the loop with isLoading false
\* and the error 'Operation timed out', and a stopped loop sends and
\* schedules nothing more.
C21_PollingIsBounded ==
    /\ [](\A id \in 1..MaxOps : polls[id].queries <= 60)
    /\ [][\A id \in 1..MaxOps :
            Answered(id) /\ ~Terminal(Answer(id))
            => IF polls[id].queries < 60
               THEN /\ polls'[id].pc = "timer"
                    /\ polls'[id].queries = polls[id].queries
               ELSE /\ polls'[id] = Stopped
                    /\ isLoading' = FALSE
                    /\ error' = "Operation timed out"]_vars
    /\ [][\A id \in 1..MaxOps :
            /\ polls[id].pc = "timer" => polls'[id].pc \in {"timer", "query"}
            /\ polls[id].pc = "timer" /\ polls'[id].pc = "query"
               => polls'[id].queries = polls[id].queries + 1
            /\ polls[id] = Stopped => polls'[id] = Stopped]_vars

\* A loop has timed out on an operation that was deleted meanwhile, so
\* that its last queries were answered null.
C21_Witness ==
    /\ \E id \in 1..MaxOps : polls[id] = Stopped /\ SelectById(ai_operations, id) = {}
    /\ error = "Operation timed out"
    /\ ~isLoading

\* C22: for every stored operation, getOperationResult and listOperations
\* return as processing_time the stored value: null exactly when the stored
\* value is null, and the same number otherwise, a stored 0 included.
C22_ReadPathsAgree ==
    [][/\ reply'.op = "getOperationResult" /\ Found(reply'.result.value)
          => \E o \in ai_operations :
                /\ o.id = reply'.result.value.id
                /\ reply'.result.value.processing_time = o.processing_time
       /\ reply'.op = "listOperations"
          => \A i \in DOMAIN reply'.result.value :
                \E o \in ai_operations :
                   /\ o.id = reply'.result.value[i].id
                   /\ reply'.result.value[i].processing_time = o.processing_time]_vars

\* The table a creation procedure inserts into.
Creations == {"uploadImage", "createProject"} \cup Tools

TableOf(op) ==
    CASE op = "uploadImage" -> images
      [] op = "createProject" -> projects
      [] op \in Tools -> ai_operations

Ids(table) == {r.id : r \in table}

\* C23: a creation call that succeeds (uploadImage, removeObject,
\* applyStyleTransfer, modifyImage, createProject) adds exactly one row to
\* its table and removes none; the id of the new row is the one returned,
\* it is larger than the id of every row of the table and was never handed
\* out before.  A creation call that fails adds no row.  So the ids of a
\* table are pairwise distinct, and each success counts for one row.
C23_CreationAddsOneRowWithFreshId ==
    /\ [](/\ Cardinality(Ids(images)) = Cardinality(images)
          /\ Cardinality(Ids(ai_operations)) = Cardinality(ai_operations)
          /\ Cardinality(Ids(projects)) = Cardinality(projects)
          /\ \A id \in Ids(images) : id \in 1..images_id_seq
          /\ \A id \in Ids(ai_operations) : id \in 1..ai_operations_id_seq
          /\ \A id \in Ids(projects) : id \in 1..projects_id_seq)
    /\ [][\A op \in Creations :
            reply'.op = op
            => IF reply'.result.status = "ok"
               THEN /\ TableOf(op) \subseteq TableOf(op)'
                    /\ Cardinality(TableOf(op)') = Cardinality(TableOf(op)) + 1
                    /\ Ids(TableOf(op)') \ Ids(TableOf(op)) = {reply'.result.value.id}
                    /\ \A id \in Ids(TableOf(op)) : id < reply'.result.value.id
               ELSE TableOf(op)' = TableOf(op)]_vars
    /\ [][/\ images_id_seq' >= images_id_seq
          /\ ai_operations_id_seq' >= ai_operations_id_seq
          /\ projects_id_seq' >= projects_id_seq]_vars

\* Two creations have succeeded on each table, the last one of them a
\* createProject.
C23_Witness ==
    /\ reply.op = "createProject"
    /\ reply.result.status = "ok"
    /\ Ids(images) = {1, 2}
    /\ Ids(ai_operations) = {1, 2}
    /\ Ids(projects) = {1, 2}

\* A poll loop stops in this step though no answer reached it: its request
\* threw.
Threw(id) == polls[id].pc = "query" /\ polls'[id] = Stopped /\ ~Answered(id)

\* What ends a loop, the displayed image source apart: a completed answer
\* and a failed answer stop it with isLoading false, the failed one with the
\* error error_message || 'Operation failed'; a request that throws stops it
\* with isLoading false and the error 'Failed to check operation status';
\* a loop that has stopped stays stopped, and getOperationResult is only
\* asked by a loop whose request is under way.
StopsAtFirstTerminalOutcome ==
    /\ \A id \in 1..MaxOps :
          /\ Answered(id) /\ Terminal(Answer(id))
             => /\ polls'[id] = Stopped
                /\ isLoading' = FALSE
                /\ Answer(id).status = "failed"
                   => error' = IF Answer(id).error_message \in {NULL, <<"">>}
                                THEN "Operation failed"
                                ELSE Answer(id).error_message[1]
                /\ Answer(id).status = "completed" => error' = error
          /\ Threw(id)
             => isLoading' = FALSE /\ error' = "Failed to check operation status"
          /\ polls[id] = Stopped => polls'[id] = Stopped
    /\ reply'.op = "getOperationResult"
       => polls[reply'.input.operation_id].pc = "query"

\* C24 as stated: the poll loop stops at its first terminal outcome and
\* sends no query after it, and a completed answer sets the displayed image
\* source to result_image_path when that is non-null.
C24_SourceSetWhenNonNull ==
    [][/\ StopsAtFirstTerminalOutcome
       /\ \A id \in 1..MaxOps :
             Answered(id) /\ Found(Answer(id)) /\ Answer(id).status = "completed"
             => currentImageSrc' = IF Answer(id).result_image_path # NULL
                                   THEN Answer(id).result_image_path[1]
                                   ELSE currentImageSrc]_vars

\* C24 as amended: the poll loop stops at its first terminal outcome and
\* sends no query after it, and a completed answer sets the displayed image
\* source to result_image_path when that is a non-empty string, and leaves
\* it as it is when result_image_path is null or ''.
C24_SourceSetWhenNonEmpty ==
    [][/\ StopsAtFirstTerminalOutcome
       /\ \A id \in 1..MaxOps :
             Answered(id) /\ Found(Answer(id)) /\ Answer(id).status = "completed"
             => currentImageSrc' = IF Answer(id).result_image_path \in {NULL, <<"">>}
                                   THEN currentImageSrc
                                   ELSE Answer(id).result_image_path[1]]_vars

\* One loop was stopped by a completed answer that set the image source,
\* and the other by a failed answer that carried no message.
C24_Witness ==
    /\ \A id \in 1..MaxOps : polls[id] = Stopped
    /\ currentImageSrc = "/results/modified_image.jpg"
    /\ error = "Operation failed"
    /\ ~isLoading
    /\ \E o \in ai_operations : o.status = "completed"
    /\ \E o \in ai_operations : o.status = "failed"

\* C25: against this server, with no worker, no answer of
\* getOperationResult to a poll loop is a completed or failed row; a loop
\* none of whose requests fails stops only on the answer to its 60th query,
\* with isLoading false and the error 'Operation timed out', and every loop
\* that was started does stop.
C25_EveryLoopTimesOut ==
    /\ \A id \in 1..MaxOps : (polls[id].pc \in {"query", "timer"}) ~> (polls[id] = Stopped)
    /\ [][\A id \in 1..MaxOps :
            /\ Answered(id) => ~Terminal(Answer(id))
            /\ polls[id] # Stopped /\ polls'[id] = Stopped
               => /\ Answered(id)
                  /\ polls[id].queries = 60
                  /\ isLoading' = FALSE
                  /\ error' = "Operation timed out"]_vars

\* A loop has timed out on an operation that is still stored as pending.
C25_Witness ==
    /\ \E id \in 1..MaxOps :
          /\ polls[id] = Stopped
          /\ \E o \in ai_operations : o.id = id /\ o.status = "pending"
    /\ error = "Operation timed out"
    /\ ~isLoading

\* The poll loops with a request under way or a timer set.
Polling == {id \in 1..MaxOps : polls[id].pc \in {"query", "timer"}}

\* C26: isLoading is true whenever some poll loop has a request under way
\* or a timer set, so that no loop that ends clears isLoading while another
\* operation is still polled.
C26_LoadingWhilePolling == Polling # {} => isLoading

\* updateProject has answered handleSaveProject with null.
SaveAnsweredNull ==
    /\ managerCall.pc = "save"
    /\ reply.op = "updateProject"
    /\ reply.result = Ok(NULL)

\* C27: when the save of ProjectManager receives null from updateProject,
\* the handler ends with the error 'Failed to update project', the project
\* list and the active project unchanged, and isLoading false.
C27_NullAnswerLeavesError ==
    [][SaveAnsweredNull =>
          /\ managerError' = "Failed to update project"
          /\ managerProjects' = managerProjects
          /\ activeProject' = activeProject
          /\ managerIsLoading' = FALSE]_vars

Supplied(input, f) == IF Has(input, f) THEN input[f] ELSE NULL

\* C29: modifyImage stores every supplied mask_data string as it is, and
\* null exactly when mask_data is omitted or null; createProject does the
\* same with description.  The empty string is a supplied value.
C29_OptionalTextsStoredVerbatim ==
    [][\A c \in Callers :
          /\ Inserted(c, "modifyImage") /\ reply'.result.status = "ok"
                => reply'.result.value.mask_data = Supplied(calls[c].input, "mask_data")
          /\ Inserted(c, "createProject") /\ reply'.result.status = "ok"
                => reply'.result.value.description
                       = Supplied(calls[c].input, "description")]_vars

\* The file of a call of handleFile fails the check of its type or size.
FailsChecks(file) == ~IsImageType(file.type) \/ file.size > MaxFileSize

\* C30: every call of handleFile that passes the checks and sets isUploading
\* ends and sets it back to false, whether the dimensions and uploadImage
\* succeed or fail; a file that is no image or is larger than 10MB is
\* rejected with a message, isUploading is not set and uploadImage is not
\* called for it.
C30_UploadEndsOrIsRejected ==
    /\ \A k \in 1..MaxFiles :
          uploads[k].pc = "dimensions" ~> (uploads[k].pc = "done" /\ ~isUploading)
    /\ [][\A k \in 1..MaxFiles :
             /\ uploads[k].pc = "none" /\ uploads'[k].pc # "none"
                   => IF FailsChecks(uploads'[k].file)
                      THEN /\ uploads'[k].pc = "rejected"
                           /\ uploaderError' # ""
                           /\ isUploading' = isUploading
                           /\ UNCHANGED server
                      ELSE uploads'[k].pc = "dimensions" /\ isUploading'
             /\ uploads[k].pc = "rejected" => uploads'[k] = uploads[k]]_vars

====
